---- MODULE Spec2Model ----
(***************************************************************************)
(* HTTP/1.1 request parser and response serializer of src/web/http.py.     *)
(* Text is a sequence of one-character strings, so that splitting,         *)
(* stripping, case folding, percent-decoding and integer parsing are       *)
(* computed character by character as the Python code computes them.       *)
(***************************************************************************)
EXTENDS Integers, Sequences, FiniteSets, TLC

(* ------------------------------------------------------------------ *)
(* Text helpers: the str / bytes methods used by http.py               *)
(* ------------------------------------------------------------------ *)

Uppers == <<"A","B","C","D","E","F","G","H","I","J","K","L","M",
            "N","O","P","Q","R","S","T","U","V","W","X","Y","Z">>
Lowers == <<"a","b","c","d","e","f","g","h","i","j","k","l","m",
            "n","o","p","q","r","s","t","u","v","w","x","y","z">>
Digits == <<"0","1","2","3","4","5","6","7","8","9">>

\* the whitespace str.strip() removes
Whitespace == {" ", "\r", "\t", "\n"}

UpperChar(c) ==
    IF \E i \in 1..26 : Lowers[i] = c
    THEN Uppers[CHOOSE i \in 1..26 : Lowers[i] = c] ELSE c

LowerChar(c) ==
    IF \E i \in 1..26 : Uppers[i] = c
    THEN Lowers[CHOOSE i \in 1..26 : Uppers[i] = c] ELSE c

\* str.upper()
Upper(s) == [i \in 1..Len(s) |-> UpperChar(s[i])]

\* str.lower()
Lower(s) == [i \in 1..Len(s) |-> LowerChar(s[i])]

\* str.strip(): drop leading and trailing whitespace
Strip(s) ==
    LET keep == {i \in 1..Len(s) : s[i] \notin Whitespace}
    IN  IF keep = {} THEN <<>>
        ELSE LET lo == CHOOSE i \in keep : \A j \in keep : i <= j
                 hi == CHOOSE i \in keep : \A j \in keep : j <= i
             IN  SubSeq(s, lo, hi)

\* whether sep occurs in s at position i
MatchAt(s, sep, i) ==
    /\ i >= 1
    /\ i + Len(sep) - 1 <= Len(s)
    /\ \A k \in 1..Len(sep) : s[i + k - 1] = sep[k]

\* str.find(sep) + 1: position of the first occurrence of sep, 0 if none
Find(s, sep) ==
    IF \E i \in 1..Len(s) : MatchAt(s, sep, i)
    THEN CHOOSE i \in 1..Len(s) :
            /\ MatchAt(s, sep, i)
            /\ \A j \in 1..(i - 1) : ~MatchAt(s, sep, j)
    ELSE 0

\* the `in` operator on str: sep is a substring of s
Contains(s, sep) == sep = <<>> \/ Find(s, sep) # 0

\* str.split(sep, maxsplit): at most maxsplit cuts, from the left
RECURSIVE Split(_, _, _)
Split(s, sep, maxsplit) ==
    LET at == Find(s, sep)
    IN  IF maxsplit = 0 \/ at = 0 THEN <<s>>
        ELSE <<SubSeq(s, 1, at - 1)>>
             \o Split(SubSeq(s, at + Len(sep), Len(s)), sep, maxsplit - 1)

\* str.split(sep) without a limit
SplitAll(s, sep) == Split(s, sep, Len(s))

\* sep.join(parts)
RECURSIVE Join(_, _)
Join(parts, sep) ==
    IF parts = <<>> THEN <<>>
    ELSE IF Len(parts) = 1 THEN parts[1]
    ELSE parts[1] \o sep \o Join(Tail(parts), sep)

IsDigit(c) == \E i \in 1..10 : Digits[i] = c
DigitVal(c) == (CHOOSE i \in 1..10 : Digits[i] = c) - 1

RECURSIVE DigitsVal(_)
DigitsVal(s) ==
    IF s = <<>> THEN 0
    ELSE 10 * DigitsVal(SubSeq(s, 1, Len(s) - 1)) + DigitVal(s[Len(s)])

\* int(s) of Python: surrounding whitespace is ignored, one optional sign,
\* then one or more decimal digits; anything else raises ValueError
IntParses(s) ==
    LET t == Strip(s)
        d == IF t # <<>> /\ t[1] \in {"+", "-"} THEN Tail(t) ELSE t
    IN  d # <<>> /\ \A i \in 1..Len(d) : IsDigit(d[i])

IntValue(s) ==
    LET t == Strip(s)
    IN  IF t[1] = "-" THEN 0 - DigitsVal(Tail(t))
        ELSE IF t[1] = "+" THEN DigitsVal(Tail(t))
        ELSE DigitsVal(t)

\* str(n) for n >= 0
RECURSIVE IntToStr(_)
IntToStr(n) ==
    IF n < 10 THEN <<Digits[n + 1]>>
    ELSE IntToStr(n \div 10) \o <<Digits[(n % 10) + 1]>>

(* ------------------------------------------------------------------ *)
(* urllib.parse.unquote                                                *)
(* ------------------------------------------------------------------ *)

\* the printable ASCII characters, code points 32..126 in order (the grave
\* accent, code 96, is spelled by its escape)
Ascii == <<
           " ","!","\"","#","$","%","&","'","(",")","*","+",",","-",".","/",
           "0","1","2","3","4","5","6","7","8","9",":",";","<","=",">","?",
           "@","A","B","C","D","E","F","G","H","I","J","K","L","M","N","O",
           "P","Q","R","S","T","U","V","W","X","Y","Z","[","\\","]","^","_",
           "\\x60","a","b","c","d","e","f","g","h","i","j","k","l","m","n","o",
           "p","q","r","s","t","u","v","w","x","y","z","{","|","}","~">>

HexDigits == <<"0","1","2","3","4","5","6","7","8","9","A","B","C","D","E","F">>

IsHex(c) == \E i \in 1..16 : HexDigits[i] = UpperChar(c)
HexVal(c) == (CHOOSE i \in 1..16 : HexDigits[i] = UpperChar(c)) - 1

\* the character a decoded byte stands for; bytes outside printable ASCII
\* are the control characters the parser knows, or the replacement
\* character U+FFFD (one symbol here)
ByteChar(v) ==
    IF v >= 32 /\ v <= 126 THEN Ascii[v - 31]
    ELSE IF v = 9 THEN "\t"
    ELSE IF v = 10 THEN "\n"
    ELSE IF v = 13 THEN "\r"
    ELSE "\\uFFFD"

\* unquote(s): every percent sign followed by two hex digits becomes the byte
\* they name; any other percent sign stays as it is; decoded output is not scanned again
RECURSIVE Unquote(_)
Unquote(s) ==
    IF s = <<>> THEN <<>>
    ELSE IF s[1] = "%" /\ Len(s) >= 3 /\ IsHex(s[2]) /\ IsHex(s[3])
         THEN <<ByteChar(16 * HexVal(s[2]) + HexVal(s[3]))>>
              \o Unquote(SubSeq(s, 4, Len(s)))
         ELSE <<s[1]>> \o Unquote(Tail(s))

(* ------------------------------------------------------------------ *)
(* Collaborators of http.py that live outside it                       *)
(* ------------------------------------------------------------------ *)

\* the value of an attribute nothing was assigned to
None == <<"<None>">>

\* constants.HTTP_VERSION: the single supported version string
HTTP_VERSION == <<"H","T","T","P","/","1",".","1">>

\* constants.BUFFERED_CHUNK_SIZE scaled down: bodies of at least this many
\* bytes are streamed
BUFFERED_CHUNK_SIZE == 4

\* proj_types.webmethod.WebMethod: the enumerated verbs, looked up by value
mGET == <<"G","E","T">>
mPOST == <<"P","O","S","T">>
WebMethods == {mGET, mPOST}

\* WebMethod(token) for a token that is no verb: a protocol error
WebMethodError == "ProtocolError"

\* proj_types.case_insensitive_dict.CaseInsensitiveDict: an ordered list of
\* entries [k |-> name as last written, v |-> value], at most one per
\* case-folded name
EmptyDict == <<>>

\* `name in d`
DictHas(d, name) == \E i \in 1..Len(d) : Lower(d[i].k) = Lower(name)

\* d[name]
DictGet(d, name) ==
    d[CHOOSE i \in 1..Len(d) : Lower(d[i].k) = Lower(name)].v

\* d[name] = value: overwrite the entry of the same case-folded name, keeping
\* its place and taking the new spelling, or append a new entry
DictSet(d, name, value) ==
    IF DictHas(d, name)
    THEN [i \in 1..Len(d) |->
            IF Lower(d[i].k) = Lower(name) THEN [k |-> name, v |-> value]
            ELSE d[i]]
    ELSE Append(d, [k |-> name, v |-> value])

\* header names and separators the code spells out
hContentLength == <<"C","o","n","t","e","n","t","-","L","e","n","g","t","h">>
hContentEncoding ==
    <<"C","o","n","t","e","n","t","-","E","n","c","o","d","i","n","g">>
hAcceptEncoding ==
    <<"A","c","c","e","p","t","-","E","n","c","o","d","i","n","g">>
ColonSpace == <<":", " ">>
CommaSpace == <<",", " ">>
Space == <<" ">>
QuestionMark == <<"?">>

(* ------------------------------------------------------------------ *)
(* HttpRequest: the pure part of each parsing step                     *)
(* ------------------------------------------------------------------ *)

\* _read_line on the stream w read up to offset p: the bytes up to the next
\* line feed, decoded and stripped; ok is FALSE when no line feed is left
HasLine(w, p) == \E i \in (p + 1)..Len(w) : w[i] = "\n"

LineEnd(w, p) ==
    CHOOSE i \in (p + 1)..Len(w) :
        /\ w[i] = "\n"
        /\ \A j \in (p + 1)..(i - 1) : w[j] # "\n"

read_line(w, p) == Strip(SubSeq(w, p + 1, LineEnd(w, p) - 1))

\* parse_status with the request-target decoded before it is cut at the
\* question mark
parse_status_decode_first(line) ==
    LET status == Split(line, Space, 2)
    IN  IF Len(status) # 3
        THEN [err |-> "ProtocolError", method |-> None, path |-> None]
        ELSE IF Upper(status[3]) # HTTP_VERSION
        THEN [err |-> "ProtocolError", method |-> None, path |-> None]
        ELSE IF status[1] \notin WebMethods
        THEN [err |-> WebMethodError, method |-> None, path |-> None]
        ELSE [err |-> "none", method |-> status[1],
              path |-> SplitAll(Unquote(status[2]), QuestionMark)[1]]

\* parse_status with the method and path assigned before the version check
parse_status_assign_first(line) ==
    LET status == Split(line, Space, 2)
    IN  IF Len(status) # 3
        THEN [err |-> "ProtocolError", method |-> None, path |-> None]
        ELSE IF Upper(status[3]) # HTTP_VERSION
        THEN [err |-> "ProtocolError",
              method |-> IF status[1] \in WebMethods THEN status[1] ELSE None,
              path |-> Unquote(SplitAll(status[2], QuestionMark)[1])]
        ELSE IF status[1] \notin WebMethods
        THEN [err |-> WebMethodError, method |-> None, path |-> None]
        ELSE [err |-> "none", method |-> status[1],
              path |-> Unquote(SplitAll(status[2], QuestionMark)[1])]

\* parse_status storing the method token without looking it up
parse_status_any_verb(line) ==
    LET status == Split(line, Space, 2)
    IN  IF Len(status) # 3
        THEN [err |-> "ProtocolError", method |-> None, path |-> None]
        ELSE IF Upper(status[3]) # HTTP_VERSION
        THEN [err |-> "ProtocolError", method |-> None, path |-> None]
        ELSE [err |-> "none", method |-> status[1],
              path |-> Unquote(SplitAll(status[2], QuestionMark)[1])]

\* _read_status on one line: the error raised, or the method and path set
parse_status(line) ==
    LET status == Split(line, Space, 2)
    IN  IF Len(status) # 3
        THEN [err |-> "ProtocolError", method |-> None, path |-> None]
        ELSE IF Upper(status[3]) # HTTP_VERSION
        THEN [err |-> "ProtocolError", method |-> None, path |-> None]
        ELSE IF status[1] \notin WebMethods
        THEN [err |-> WebMethodError, method |-> None, path |-> None]
        ELSE [err |-> "none", method |-> status[1],
              path |-> Unquote(SplitAll(status[2], QuestionMark)[1])]

\* parse_header keeping the value a name already has
parse_header_first_wins(hdrs, line) ==
    LET header == Split(line, ColonSpace, 1)
    IN  IF DictHas(hdrs, header[1]) THEN hdrs
        ELSE IF Len(header) # 2 THEN DictSet(hdrs, header[1], <<>>)
        ELSE DictSet(hdrs, header[1], header[2])

\* one iteration of the loop of _read_headers on a non-empty line
parse_header(hdrs, line) ==
    LET header == Split(line, ColonSpace, 1)
    IN  IF Len(header) # 2 THEN DictSet(hdrs, header[1], <<>>)
        ELSE DictSet(hdrs, header[1], header[2])

(* ------------------------------------------------------------------ *)
(* web.encoding.Encoding: the codec registry                           *)
(* ------------------------------------------------------------------ *)

cGzip == <<"g","z","i","p">>
cBr == <<"b","r">>
cDeflate == <<"d","e","f","l","a","t","e">>

\* Encoding.supported_encodings(): the registry in its preference order
SupportedEncodings == <<cGzip, cBr, cDeflate>>

\* Encoding.get_encoding(name) is not None
IsEncoding(name) == \E i \in 1..Len(SupportedEncodings) : SupportedEncodings[i] = name

\* chunked_compression() / chunked_decompression() is not None
HasChunked(name) == name \in {cGzip, cDeflate}

\* the length of the run of equal bytes d starts with, at most 9
RunLen(d) ==
    LET top == IF Len(d) < 9 THEN Len(d) ELSE 9
        same == {n \in 1..top : \A i \in 1..n : d[i] = d[1]}
    IN  CHOOSE n \in same : \A m \in same : m <= n

\* run-length coding: each run becomes its byte and its length digit
RECURSIVE RleEncode(_)
RleEncode(d) ==
    IF d = <<>> THEN <<>>
    ELSE LET n == RunLen(d)
         IN  <<d[1], Digits[n + 1]>> \o RleEncode(SubSeq(d, n + 1, Len(d)))

RleValid(x) ==
    /\ Len(x) % 2 = 0
    /\ \A i \in 1..Len(x) : i % 2 = 0 => (IsDigit(x[i]) /\ x[i] # "0")

RECURSIVE RleDecode(_)
RleDecode(x) ==
    IF x = <<>> THEN <<>>
    ELSE [i \in 1..DigitVal(x[2]) |-> x[1]] \o RleDecode(SubSeq(x, 3, Len(x)))

Reverse(d) == [i \in 1..Len(d) |-> d[Len(d) + 1 - i]]

\* encoding.compress(data): gzip is a magic byte and the run-length coding
\* of the data (it shrinks long runs and enlarges short inputs); br is a
\* length-preserving transform; deflate stores the data behind a magic byte
Compress(name, data) ==
    IF name = cGzip THEN <<"Z">> \o RleEncode(data)
    ELSE IF name = cDeflate THEN <<"D">> \o data
    ELSE Reverse(data)

\* encoding.decompress(data) raises on data the codec did not produce
CanDecompress(name, data) ==
    IF name = cGzip
    THEN data # <<>> /\ data[1] = "Z" /\ RleValid(Tail(data))
    ELSE IF name = cDeflate THEN data # <<>> /\ data[1] = "D"
    ELSE TRUE

Decompress(name, data) ==
    IF name = cGzip THEN RleDecode(Tail(data))
    ELSE IF name = cDeflate THEN Tail(data)
    ELSE Reverse(data)

(* ------------------------------------------------------------------ *)
(* Request and response bodies                                         *)
(* ------------------------------------------------------------------ *)

\* body is None
NoBody == [kind |-> "none", data |-> <<>>, length |-> 0, chain |-> <<>>]

\* body is a bytes object
Bytes(data) == [kind |-> "bytes", data |-> data, length |-> Len(data), chain |-> <<>>]

\* web.socket_data.DataReceiver(sock, length): nothing read yet, no
\* decompressor attached
DataReceiver(length) ==
    [kind |-> "receiver", data |-> <<>>, length |-> length, chain |-> <<>>]

\* decompress_each leaving the loop at the first name it does not know
RECURSIVE decompress_each_stops_at_unknown(_, _)
decompress_each_stops_at_unknown(encodings, body) ==
    IF encodings = <<>> THEN [err |-> "none", body |-> body]
    ELSE LET encoding == encodings[1]
             rest == Tail(encodings)
         IN  IF ~IsEncoding(encoding) THEN [err |-> "none", body |-> body]
             ELSE IF body.kind = "receiver"
             THEN IF ~HasChunked(encoding)
                  THEN decompress_each_stops_at_unknown(rest, body)
                  ELSE decompress_each_stops_at_unknown(rest,
                          [body EXCEPT !.chain = Append(@, encoding)])
             ELSE IF ~CanDecompress(encoding, body.data)
             THEN [err |-> "CodecError", body |-> body]
             ELSE decompress_each_stops_at_unknown(rest,
                      Bytes(Decompress(encoding, body.data)))

\* HttpRequest._decompress_body from the headers and the body: the error
\* raised by a codec, or the body after every listed encoding
RECURSIVE decompress_each(_, _)
decompress_each(encodings, body) ==
    IF encodings = <<>> THEN [err |-> "none", body |-> body]
    ELSE LET encoding == encodings[1]
             rest == Tail(encodings)
         IN  IF ~IsEncoding(encoding) THEN decompress_each(rest, body)
             ELSE IF body.kind = "receiver"
             THEN IF ~HasChunked(encoding) THEN decompress_each(rest, body)
                  ELSE decompress_each(rest,
                          [body EXCEPT !.chain = Append(@, encoding)])
             ELSE IF ~CanDecompress(encoding, body.data)
             THEN [err |-> "CodecError", body |-> body]
             ELSE decompress_each(rest, Bytes(Decompress(encoding, body.data)))

decompress_body(hdrs, body) ==
    IF ~DictHas(hdrs, hContentEncoding) \/ body.kind = "none"
    THEN [err |-> "none", body |-> body]
    ELSE decompress_each(SplitAll(DictGet(hdrs, hContentEncoding), CommaSpace), body)

(* ------------------------------------------------------------------ *)
(* State                                                               *)
(* ------------------------------------------------------------------ *)

VARIABLES
    wire,       \* every byte the peer sends on the connection before it closes
    pos,        \* how many of them the server has read
    pc,         \* HttpRequest.handle: STATUS, HEADERS, BODY, DONE or ERROR
    err,        \* the exception that ended handle, or "none"
    method,     \* request._method
    path,       \* request._path
    headers,    \* request._headers
    body,       \* request._body
    spc,        \* HttpResponse: NEW, READY, then the position inside send
    rerr,       \* the exception that ended send, or "none"
    status,     \* response.code and response.msg
    rheaders,   \* response.headers
    rbody,      \* response.body
    out,        \* what was written to the socket, in order
    closes,     \* how many times the socket was closed
    files,      \* the rows of the file database, DataDB().files()
    aresp,      \* the response as the last API handler left it
    asession,   \* the session get_session() found for the last API request
    acall,      \* what the last API handler did: its access check, its mutation
    folders,    \* the ids of the folders of the file database
    shares,     \* the rows of the share database, DataDB().shares()
    disk,       \* the files under constants.FILES: file id and content
    users,      \* the rows of the users table
    ucall       \* the last call of UsersTable.register and what it returned

vars == <<wire, pos, pc, err, method, path, headers, body,
          spc, rerr, status, rheaders, rbody, out, closes,
          files, aresp, asession, acall, folders, shares, disk, users, ucall>>

reqVars == <<wire, pos, pc, err, method, path, headers, body>>
respVars == <<spc, rerr, status, rheaders, rbody, out, closes>>
storeVars == <<folders, shares, disk>>
userVars == <<users, ucall>>
apiVars == <<files, aresp, asession, acall, folders, shares, disk, users, ucall>>

(* ------------------------------------------------------------------ *)
(* HttpRequest.handle                                                  *)
(* ------------------------------------------------------------------ *)

\* _read_line when the peer closed before a line feed: recv(1) returns no
\* byte for ever and the loop never ends
read_line_eof ==
    /\ pc \in {"STATUS", "HEADERS"}
    /\ ~HasLine(wire, pos)
    /\ pos' = Len(wire)
    /\ UNCHANGED <<wire, pc, err, method, path, headers, body>>
    /\ UNCHANGED respVars
    /\ UNCHANGED apiVars

read_status ==
    /\ pc = "STATUS"
    /\ HasLine(wire, pos)
    /\ LET r == parse_status(read_line(wire, pos))
       IN  /\ pos' = LineEnd(wire, pos)
           /\ err' = r.err
           /\ method' = r.method
           /\ path' = r.path
           /\ pc' = IF r.err = "none" THEN "HEADERS" ELSE "ERROR"
    /\ UNCHANGED <<wire, headers, body>>
    /\ UNCHANGED respVars
    /\ UNCHANGED apiVars

\* one pass of the loop of _read_headers
read_headers ==
    /\ pc = "HEADERS"
    /\ HasLine(wire, pos)
    /\ LET l == read_line(wire, pos)
       IN  /\ pos' = LineEnd(wire, pos)
           /\ IF Len(l) = 0
              THEN pc' = "BODY" /\ headers' = headers
              ELSE pc' = "HEADERS" /\ headers' = parse_header(headers, l)
    /\ UNCHANGED <<wire, err, method, path, body>>
    /\ UNCHANGED respVars
    /\ UNCHANGED apiVars

\* socket.recv(n): the byte counts it may return with p bytes read so far
RecvCounts(w, p, n) ==
    IF n = 0 \/ p = Len(w) THEN {0}
    ELSE 1..(IF n < Len(w) - p THEN n ELSE Len(w) - p)

\* body_plan streaming only above the threshold
body_plan_above_threshold(hdrs) ==
    IF ~DictHas(hdrs, hContentLength)
    THEN [act |-> "return", err |-> "none", n |-> 0]
    ELSE IF ~IntParses(DictGet(hdrs, hContentLength))
    THEN [act |-> "raise", err |-> "ProtocolError", n |-> 0]
    ELSE LET content_length == IntValue(DictGet(hdrs, hContentLength))
         IN  IF content_length > BUFFERED_CHUNK_SIZE
             THEN [act |-> "stream", err |-> "none", n |-> content_length]
             ELSE IF content_length < 0
             THEN [act |-> "raise", err |-> "ValueError", n |-> content_length]
             ELSE [act |-> "recv", err |-> "none", n |-> content_length]

\* body_plan returning without a body for a declared length of zero
body_plan_zero_is_none(hdrs) ==
    IF ~DictHas(hdrs, hContentLength)
    THEN [act |-> "return", err |-> "none", n |-> 0]
    ELSE IF ~IntParses(DictGet(hdrs, hContentLength))
    THEN [act |-> "raise", err |-> "ProtocolError", n |-> 0]
    ELSE LET content_length == IntValue(DictGet(hdrs, hContentLength))
         IN  IF content_length = 0
             THEN [act |-> "return", err |-> "none", n |-> 0]
             ELSE IF content_length >= BUFFERED_CHUNK_SIZE
             THEN [act |-> "stream", err |-> "none", n |-> content_length]
             ELSE IF content_length < 0
             THEN [act |-> "raise", err |-> "ValueError", n |-> content_length]
             ELSE [act |-> "recv", err |-> "none", n |-> content_length]

\* body_plan letting the ValueError of int() escape
body_plan_value_error(hdrs) ==
    IF ~DictHas(hdrs, hContentLength)
    THEN [act |-> "return", err |-> "none", n |-> 0]
    ELSE IF ~IntParses(DictGet(hdrs, hContentLength))
    THEN [act |-> "raise", err |-> "ValueError", n |-> 0]
    ELSE LET content_length == IntValue(DictGet(hdrs, hContentLength))
         IN  IF content_length >= BUFFERED_CHUNK_SIZE
             THEN [act |-> "stream", err |-> "none", n |-> content_length]
             ELSE IF content_length < 0
             THEN [act |-> "raise", err |-> "ValueError", n |-> content_length]
             ELSE [act |-> "recv", err |-> "none", n |-> content_length]

\* _read_body up to the socket read: leave the body alone, raise, build a
\* streaming receiver, or receive n bytes
body_plan(hdrs) ==
    IF ~DictHas(hdrs, hContentLength)
    THEN [act |-> "return", err |-> "none", n |-> 0]
    ELSE IF ~IntParses(DictGet(hdrs, hContentLength))
    THEN [act |-> "raise", err |-> "ProtocolError", n |-> 0]
    ELSE LET content_length == IntValue(DictGet(hdrs, hContentLength))
         IN  IF content_length >= BUFFERED_CHUNK_SIZE
             THEN [act |-> "stream", err |-> "none", n |-> content_length]
             ELSE IF content_length < 0
             THEN \* recv with a negative size raises ValueError
                  [act |-> "raise", err |-> "ValueError", n |-> content_length]
             ELSE [act |-> "recv", err |-> "none", n |-> content_length]

\* read_body filling the first chunk of a streamed body at once
read_body_stream_eager ==
    /\ pc = "BODY"
    /\ LET plan == body_plan(headers)
       IN  CASE plan.act = "return" ->
                    /\ pc' = "DONE"
                    /\ UNCHANGED <<pos, err, body>>
             [] plan.act = "raise" ->
                    /\ pc' = "ERROR"
                    /\ err' = plan.err
                    /\ UNCHANGED <<pos, body>>
             [] plan.act = "stream" ->
                    \E k \in RecvCounts(wire, pos, BUFFERED_CHUNK_SIZE) :
                        /\ body' = DataReceiver(plan.n)
                        /\ pos' = pos + k
                        /\ pc' = "DONE"
                        /\ UNCHANGED err
             [] plan.act = "recv" ->
                    \E k \in RecvCounts(wire, pos, plan.n) :
                        /\ body' = Bytes(SubSeq(wire, pos + 1, pos + k))
                        /\ pos' = pos + k
                        /\ pc' = "DONE"
                        /\ UNCHANGED err
    /\ UNCHANGED <<wire, method, path, headers>>
    /\ UNCHANGED respVars
    /\ UNCHANGED apiVars

\* read_body receiving from the socket before it looks at the length
read_body_recv_first ==
    /\ pc = "BODY"
    /\ LET plan == body_plan(headers)
       IN  CASE plan.act = "return" ->
                    /\ pc' = "DONE"
                    /\ UNCHANGED <<pos, err, body>>
             [] plan.act = "raise" ->
                    \E k \in RecvCounts(wire, pos, BUFFERED_CHUNK_SIZE) :
                        /\ pos' = pos + k
                        /\ pc' = "ERROR"
                        /\ err' = plan.err
                        /\ UNCHANGED body
             [] plan.act = "stream" ->
                    /\ body' = DataReceiver(plan.n)
                    /\ pc' = "DONE"
                    /\ UNCHANGED <<pos, err>>
             [] plan.act = "recv" ->
                    \E k \in RecvCounts(wire, pos, plan.n) :
                        /\ body' = Bytes(SubSeq(wire, pos + 1, pos + k))
                        /\ pos' = pos + k
                        /\ pc' = "DONE"
                        /\ UNCHANGED err
    /\ UNCHANGED <<wire, method, path, headers>>
    /\ UNCHANGED respVars
    /\ UNCHANGED apiVars

read_body ==
    /\ pc = "BODY"
    /\ LET plan == body_plan(headers)
       IN  CASE plan.act = "return" ->
                    /\ pc' = "DONE"
                    /\ UNCHANGED <<pos, err, body>>
             [] plan.act = "raise" ->
                    /\ pc' = "ERROR"
                    /\ err' = plan.err
                    /\ UNCHANGED <<pos, body>>
             [] plan.act = "stream" ->
                    /\ body' = DataReceiver(plan.n)
                    /\ pc' = "DONE"
                    /\ UNCHANGED <<pos, err>>
             [] plan.act = "recv" ->
                    \E k \in RecvCounts(wire, pos, plan.n) :
                        /\ body' = Bytes(SubSeq(wire, pos + 1, pos + k))
                        /\ pos' = pos + k
                        /\ pc' = "DONE"
                        /\ UNCHANGED err
    /\ UNCHANGED <<wire, method, path, headers>>
    /\ UNCHANGED respVars
    /\ UNCHANGED apiVars

\* a caller running request._decompress_body() on the parsed request
decompress_request ==
    /\ pc = "DONE"
    /\ spc = "NEW"
    /\ LET r == decompress_body(headers, body)
       IN  /\ body' = r.body
           /\ err' = r.err
           /\ pc' = IF r.err = "none" THEN "DECODED" ELSE "ERROR"
    /\ UNCHANGED <<wire, pos, method, path, headers>>
    /\ UNCHANGED respVars
    /\ UNCHANGED apiVars

(* ------------------------------------------------------------------ *)
(* HttpResponse                                                        *)
(* ------------------------------------------------------------------ *)

\* web.socket_data.DataSender(path): the bytes of the source file, no
\* compressor attached; len() of it is the length of the source
DataSender(source) ==
    [kind |-> "sender", data |-> source, length |-> Len(source), chain |-> <<>>]

\* len(self.body)
BodyLen(b) == IF b.kind = "bytes" THEN Len(b.data) ELSE b.length

\* `not self.body`: None, empty bytes, or an object of length zero
BodyFalsy(b) == b.kind = "none" \/ BodyLen(b) = 0

\* compress_each taking the output of every accepted codec, whatever its size
RECURSIVE compress_each_any_size(_, _, _, _)
compress_each_any_size(i, accept_encoding, b, used_encodings) ==
    IF i > Len(SupportedEncodings) THEN [body |-> b, used |-> used_encodings]
    ELSE LET encoding == SupportedEncodings[i]
         IN  IF ~Contains(accept_encoding, encoding)
             THEN compress_each_any_size(i + 1, accept_encoding, b, used_encodings)
             ELSE IF b.kind = "sender"
             THEN IF HasChunked(encoding)
                  THEN compress_each_any_size(i + 1, accept_encoding,
                          [b EXCEPT !.chain = Append(@, encoding)],
                          Append(used_encodings, encoding))
                  ELSE compress_each_any_size(i + 1, accept_encoding, b,
                                              used_encodings)
             ELSE compress_each_any_size(i + 1, accept_encoding,
                      Bytes(Compress(encoding, b.data)),
                      Append(used_encodings, encoding))

\* compress_each recording every accepted codec for a streaming body, with
\* or without a streaming variant
RECURSIVE compress_each_sender_any(_, _, _, _)
compress_each_sender_any(i, accept_encoding, b, used_encodings) ==
    IF i > Len(SupportedEncodings) THEN [body |-> b, used |-> used_encodings]
    ELSE LET encoding == SupportedEncodings[i]
         IN  IF ~Contains(accept_encoding, encoding)
             THEN compress_each_sender_any(i + 1, accept_encoding, b, used_encodings)
             ELSE IF b.kind = "sender"
             THEN compress_each_sender_any(i + 1, accept_encoding,
                      IF HasChunked(encoding)
                      THEN [b EXCEPT !.chain = Append(@, encoding)] ELSE b,
                      Append(used_encodings, encoding))
             ELSE LET tested_encoding == Compress(encoding, b.data)
                  IN  IF Len(tested_encoding) > Len(b.data)
                      THEN compress_each_sender_any(i + 1, accept_encoding, b,
                                                    used_encodings)
                      ELSE compress_each_sender_any(i + 1, accept_encoding,
                              Bytes(tested_encoding),
                              Append(used_encodings, encoding))

\* the loop of HttpResponse._compress_body over the registry from entry i,
\* with _compress_sender for a streaming body
RECURSIVE compress_each(_, _, _, _)
compress_each(i, accept_encoding, b, used_encodings) ==
    IF i > Len(SupportedEncodings) THEN [body |-> b, used |-> used_encodings]
    ELSE LET encoding == SupportedEncodings[i]
         IN  IF ~Contains(accept_encoding, encoding)
             THEN compress_each(i + 1, accept_encoding, b, used_encodings)
             ELSE IF b.kind = "sender"
             THEN IF HasChunked(encoding)
                  THEN compress_each(i + 1, accept_encoding,
                          [b EXCEPT !.chain = Append(@, encoding)],
                          Append(used_encodings, encoding))
                  ELSE compress_each(i + 1, accept_encoding, b, used_encodings)
             ELSE LET tested_encoding == Compress(encoding, b.data)
                  IN  IF Len(tested_encoding) > Len(b.data)
                      THEN compress_each(i + 1, accept_encoding, b, used_encodings)
                      ELSE compress_each(i + 1, accept_encoding,
                              Bytes(tested_encoding),
                              Append(used_encodings, encoding))

\* compress_body setting Content-Encoding only when a codec was applied
compress_body_only_if_used(recv_headers, hdrs, b) ==
    IF ~DictHas(recv_headers, hAcceptEncoding) \/ BodyFalsy(b)
    THEN [body |-> b, headers |-> hdrs]
    ELSE LET r == compress_each(1, DictGet(recv_headers, hAcceptEncoding), b, <<>>)
         IN  [body |-> r.body,
              headers |-> IF r.used = <<>> THEN hdrs
                          ELSE DictSet(hdrs, hContentEncoding,
                                       Join(r.used, CommaSpace))]

\* HttpResponse._compress_body: the body and the headers it leaves
compress_body(recv_headers, hdrs, b) ==
    IF ~DictHas(recv_headers, hAcceptEncoding) \/ BodyFalsy(b)
    THEN [body |-> b, headers |-> hdrs]
    ELSE LET r == compress_each(1, DictGet(recv_headers, hAcceptEncoding), b, <<>>)
         IN  [body |-> r.body,
              headers |-> DictSet(hdrs, hContentEncoding, Join(r.used, CommaSpace))]

\* send_prepare taking Content-Length from the body as the handler left it
send_prepare_length_first(recv_headers, hdrs, b) ==
    IF b.kind = "none" THEN [body |-> b, headers |-> hdrs]
    ELSE LET r == compress_body(recv_headers,
                     DictSet(hdrs, hContentLength, IntToStr(BodyLen(b))), b)
         IN  [body |-> r.body, headers |-> r.headers]

\* the first lines of send: negotiation, then Content-Length
send_prepare(recv_headers, hdrs, b) ==
    IF b.kind = "none" THEN [body |-> b, headers |-> hdrs]
    ELSE LET r == compress_body(recv_headers, hdrs, b)
         IN  [body |-> r.body,
              headers |-> DictSet(r.headers, hContentLength, IntToStr(BodyLen(r.body)))]

\* HttpResponse._default_headers: the date is a symbol for the current time
hDate == <<"D","a","t","e">>
hServer == <<"S","e","r","v","e","r">>
Now == <<"n","o","w">>
SERVER_NAME == <<"s","r","v">>
default_headers == <<[k |-> hDate, v |-> Now], [k |-> hServer, v |-> SERVER_NAME]>>

\* left | right on header maps: the entries of right win
RECURSIVE DictMerge(_, _)
DictMerge(left, right) ==
    IF right = <<>> THEN left
    ELSE DictMerge(DictSet(left, right[1].k, right[1].v), Tail(right))

\* what is written to the socket: one event per sendall, and the close
Event(t, k, v) == [t |-> t, k |-> k, v |-> v]

\* _send_status: the line written
status_line(st) == Join(<<HTTP_VERSION, IntToStr(st.code), st.msg>>, Space)

\* header_events with the merge turned round: the default values win
header_events_defaults_win(hdrs) ==
    LET merged == DictMerge(hdrs, default_headers)
    IN  [i \in 1..Len(merged) |-> Event("header", merged[i].k, merged[i].v)]
        \o <<Event("blank", <<>>, <<>>)>>

\* _send_headers: the header lines and the empty line, in order
header_events(hdrs) ==
    LET merged == DictMerge(default_headers, hdrs)
    IN  [i \in 1..Len(merged) |-> Event("header", merged[i].k, merged[i].v)]
        \o <<Event("blank", <<>>, <<>>)>>

\* DataSender.send_to: the source passed through every attached compressor
RECURSIVE ApplyChain(_, _)
ApplyChain(chain, data) ==
    IF chain = <<>> THEN data
    ELSE ApplyChain(Tail(chain), Compress(chain[1], data))

\* _send_body: the bytes written, if any
body_events(b) ==
    IF b.kind = "none" THEN <<>>
    ELSE IF b.kind = "sender"
    THEN <<Event("body", <<>>, ApplyChain(b.chain, b.data))>>
    ELSE <<Event("body", <<>>, b.data)>>

\* send_next with the header block written before the status line
send_next_headers_first(stage) ==
    CASE stage = "READY" -> "HEADERS"
      [] stage = "HEADERS" -> "STATUS"
      [] stage = "STATUS" -> "BODY"
      [] stage = "BODY" -> "CLOSE"
      [] stage = "CLOSE" -> "SENT"

\* the order of the steps of send
send_next(stage) ==
    CASE stage = "READY" -> "STATUS"
      [] stage = "STATUS" -> "HEADERS"
      [] stage = "HEADERS" -> "BODY"
      [] stage = "BODY" -> "CLOSE"
      [] stage = "CLOSE" -> "SENT"

(* ------------------------------------------------------------------ *)
(* The steps of HttpResponse.send                                      *)
(* ------------------------------------------------------------------ *)

\* what business logic may leave in the response it was handed
HandlerStatus == <<[code |-> 200, msg |-> <<"O","K">>],
                   [code |-> 500, msg |-> <<"I","n","v","a","l","i","d">>]>>

HandlerHeaders ==
    {EmptyDict,
     <<[k |-> <<"d","a","t","e">>, v |-> <<"x">>]>>,
     <<[k |-> <<"X","-","A">>, v |-> <<"1">>]>>,
     <<[k |-> <<"c","o","n","t","e","n","t","-","l","e","n","g","t","h">>,
        v |-> <<"9">>]>>}

HandlerBodies ==
    {NoBody, Bytes(<<>>), Bytes(<<"a","b">>), Bytes(<<"a","a","a">>),
     Bytes(<<"a","a","a","a">>), DataSender(<<"a","a","b","b">>)}

\* every body with every header set, and an error answer
HandlerChoices ==
    {[status |-> HandlerStatus[1], headers |-> h, body |-> b] :
        h \in HandlerHeaders, b \in HandlerBodies}
    \cup {[status |-> HandlerStatus[2], headers |-> EmptyDict,
           body |-> Bytes(<<"a","b">>)]}

\* request.response() and the handler filling it in
handle_request ==
    /\ pc = "DONE"
    /\ spc = "NEW"
    /\ \E c \in HandlerChoices :
          /\ status' = c.status
          /\ rheaders' = c.headers
          /\ rbody' = c.body
    /\ spc' = "READY"
    /\ UNCHANGED <<rerr, out, closes>>
    /\ UNCHANGED reqVars
    /\ UNCHANGED apiVars

send_begin ==
    /\ spc = "READY"
    /\ LET r == send_prepare(headers, rheaders, rbody)
       IN  /\ rbody' = r.body
           /\ rheaders' = r.headers
    /\ spc' = send_next("READY")
    /\ UNCHANGED <<rerr, status, out, closes>>
    /\ UNCHANGED reqVars
    /\ UNCHANGED apiVars

send_status ==
    /\ spc = "STATUS"
    /\ out' = Append(out, Event("status", status_line(status), <<>>))
    /\ spc' = send_next("STATUS")
    /\ UNCHANGED <<rerr, status, rheaders, rbody, closes>>
    /\ UNCHANGED reqVars
    /\ UNCHANGED apiVars

send_headers ==
    /\ spc = "HEADERS"
    /\ out' = out \o header_events(rheaders)
    /\ spc' = send_next("HEADERS")
    /\ UNCHANGED <<rerr, status, rheaders, rbody, closes>>
    /\ UNCHANGED reqVars
    /\ UNCHANGED apiVars

send_body ==
    /\ spc = "BODY"
    /\ out' = out \o body_events(rbody)
    /\ spc' = send_next("BODY")
    /\ UNCHANGED <<rerr, status, rheaders, rbody, closes>>
    /\ UNCHANGED reqVars
    /\ UNCHANGED apiVars

\* self._socket.close(), the last statement of send
send_close ==
    /\ spc = "CLOSE"
    /\ closes' = closes + 1
    /\ out' = Append(out, Event("close", <<>>, <<>>))
    /\ spc' = send_next("CLOSE")
    /\ UNCHANGED <<rerr, status, rheaders, rbody>>
    /\ UNCHANGED reqVars
    /\ UNCHANGED apiVars

\* a write raises (the peer is gone, or the streaming sender fails): the
\* exception leaves send at once
send_raises ==
    /\ spc \in {"STATUS", "HEADERS", "BODY"}
    /\ spc = "BODY" => rbody.kind # "none"
    /\ spc' = "RAISED"
    /\ rerr' = "OSError"
    /\ UNCHANGED <<status, rheaders, rbody, out, closes>>
    /\ UNCHANGED reqVars
    /\ UNCHANGED apiVars

(* ------------------------------------------------------------------ *)
(* APIHandler: the handlers that change a stored file                  *)
(* ------------------------------------------------------------------ *)

\* body.get(key, None) found no such key
Missing == "<missing>"

\* get_session() found no session
NoSession == "<no session>"

\* the file database: one row per file, with its owner and the users it
\* is shared with; the folders that exist before the requests
FileRow(id, owner, name, folder, readers) ==
    [id |-> id, owner |-> owner, name |-> name, folder |-> folder,
     readers |-> readers]
RootFolder == ""
FolderIds == {"d1"}

file_db_check_file_id(db, file_id) == \E f \in db : f.id = file_id

file_db_check_folder_id(folder_id) == folder_id \in folders

\* can_download: the owner of the file, or a user it is shared with
file_db_can_download(db, session, file_id) ==
    \E f \in db : f.id = file_id /\ (f.owner = session \/ session \in f.readers)

file_db_rename(db, file_id, new_name) ==
    {IF f.id = file_id THEN [f EXCEPT !.name = new_name] ELSE f : f \in db}

file_db_move(db, file_id, new_path) ==
    {IF f.id = file_id THEN [f EXCEPT !.folder = new_path] ELSE f : f \in db}

file_db_delete_file(db, file_id) == {f \in db : f.id # file_id}

\* the response a handler is given, with the header handle has set, and
\* _response_invalid_data; reply is the JSON body of a success, sender the
\* path of the file attached as a streaming body
NoReply == [key |-> Missing, value |-> {}]
FreshResponse ==
    [code |-> 200, msg |-> "OK", message |-> Missing, reply |-> NoReply,
     sender |-> Missing, headers |-> {"Cache-Control"}]
response_invalid_data(message) ==
    [FreshResponse EXCEPT !.code = 500, !.msg = "Invalid Form Data",
                          !.message = message]

\* what a handler did: whether it asked can_download and what that
\* returned, and whether it called the mutating method of the database
\* and the exception that ended it, if any
NoCall == [op |-> "none", checked |-> FALSE, allowed |-> FALSE,
           mutated |-> FALSE, raised |-> "none"]
Outcome(op, db, resp, checked, allowed, mutated) ==
    [files |-> db, resp |-> resp,
     call |-> [op |-> op, checked |-> checked, allowed |-> allowed,
               mutated |-> mutated, raised |-> "none"]]

\* APIHandler._rename
api_rename(db, session, file_id, new_name) ==
    IF session = NoSession
    THEN Outcome("rename", db, response_invalid_data("You need to login."),
                 FALSE, FALSE, FALSE)
    ELSE IF file_id = Missing \/ ~file_db_check_file_id(db, file_id)
    THEN Outcome("rename", db, response_invalid_data("File does not exist."),
                 FALSE, FALSE, FALSE)
    ELSE IF ~file_db_can_download(db, session, file_id)
    THEN Outcome("rename", db, response_invalid_data("You can't do that!"),
                 TRUE, FALSE, FALSE)
    ELSE IF new_name = Missing \/ new_name = ""
    THEN Outcome("rename", db, response_invalid_data("No new name specified!"),
                 TRUE, TRUE, FALSE)
    ELSE Outcome("rename", file_db_rename(db, file_id, new_name), FreshResponse,
                 TRUE, TRUE, TRUE)

\* APIHandler._move: the failed access check sets the response and the
\* handler goes on
api_move(db, session, file_id, new_path) ==
    IF session = NoSession
    THEN Outcome("move", db, response_invalid_data("You need to login."),
                 FALSE, FALSE, FALSE)
    ELSE IF file_id = Missing \/ ~file_db_check_file_id(db, file_id)
    THEN Outcome("move", db, response_invalid_data("File does not exist."),
                 FALSE, FALSE, FALSE)
    ELSE LET allowed == file_db_can_download(db, session, file_id)
             response == IF allowed THEN FreshResponse
                         ELSE response_invalid_data("You can't do that!")
         IN  IF new_path = Missing
                  \/ ~(file_db_check_folder_id(new_path) \/ new_path = RootFolder)
             THEN Outcome("move", db,
                     response_invalid_data("The target path does not exist."),
                     TRUE, allowed, FALSE)
             ELSE Outcome("move", file_db_move(db, file_id, new_path), response,
                     TRUE, allowed, TRUE)

\* APIHandler._delete: the failed access check sets the response and the
\* handler goes on
api_delete(db, session, file_id) ==
    IF session = NoSession
    THEN Outcome("delete", db, response_invalid_data("You need to login."),
                 FALSE, FALSE, FALSE)
    ELSE IF file_id = Missing \/ ~file_db_check_file_id(db, file_id)
    THEN Outcome("delete", db, response_invalid_data("File does not exist."),
                 FALSE, FALSE, FALSE)
    ELSE LET allowed == file_db_can_download(db, session, file_id)
             response == IF allowed THEN FreshResponse
                         ELSE response_invalid_data("You can't do that!")
         IN  Outcome("delete", file_db_delete_file(db, file_id), response,
                     TRUE, allowed, TRUE)

\* file_db.name_check: no file of that name in that folder for the user
file_db_name_check(db, session, parent_dir, file_name) ==
    ~\E f \in db : f.owner = session /\ f.folder = parent_dir /\ f.name = file_name

\* file_db.make_file: a new private row under the id the database chose
file_db_make_file(db, new_id, session, parent_dir, file_name) ==
    db \cup {FileRow(new_id, session, file_name, parent_dir, {})}

\* open(path, "wb") and the writes that follow: the file holds data
disk_write(dk, file_id, data) ==
    {d \in dk : d.id # file_id} \cup {[id |-> file_id, data |-> data]}

\* DataReceiver.receive_into(file) with the bytes in pending still to come
\* before the peer closes: the bytes written to the file, and the error
\* raised when fewer than the declared length arrive
receive_into(receiver, pending) ==
    IF Len(pending) >= receiver.length
    THEN [data |-> SubSeq(pending, 1, receiver.length), err |-> "none"]
    ELSE [data |-> pending, err |-> "ConnectionError"]

\* what a handler that touches the files on disk leaves
DiskOutcome(op, db, dk, resp, checked, allowed, mutated, raised) ==
    [files |-> db, disk |-> dk, resp |-> resp,
     call |-> [op |-> op, checked |-> checked, allowed |-> allowed,
               mutated |-> mutated, raised |-> raised]]

\* api_upload without the login check
api_upload_no_login(db, dk, session, route, data, pending, new_id) ==
    IF data.kind = "none"
    THEN DiskOutcome("upload", db, dk, response_invalid_data("No data provided!"),
                     FALSE, FALSE, FALSE, "none")
    ELSE IF Len(route) < 2
    THEN DiskOutcome("upload", db, dk, response_invalid_data("Invalid Data."),
                     FALSE, FALSE, FALSE, "none")
    ELSE LET parent_dir == IF Len(route) = 2 THEN RootFolder ELSE route[2]
             file_name == IF Len(route) = 2 THEN route[2] ELSE route[3]
             made == file_db_make_file(db, new_id, session, parent_dir, file_name)
             done == [FreshResponse EXCEPT
                         !.reply = [key |-> "file_id", value |-> {new_id}]]
         IN  IF ~file_db_name_check(db, session, parent_dir, file_name)
             THEN DiskOutcome("upload", db, dk,
                     response_invalid_data("A file with this name already exists!"),
                     FALSE, FALSE, FALSE, "none")
             ELSE IF data.kind = "receiver"
             THEN LET got == receive_into(data, pending)
                  IN  IF got.err # "none"
                      THEN DiskOutcome("upload", made,
                              disk_write(dk, new_id, got.data), FreshResponse,
                              FALSE, FALSE, TRUE, got.err)
                      ELSE DiskOutcome("upload", made,
                              disk_write(dk, new_id, got.data), done,
                              FALSE, FALSE, TRUE, "none")
             ELSE DiskOutcome("upload", made, disk_write(dk, new_id, data.data),
                     done, FALSE, FALSE, TRUE, "none")

\* APIHandler._upload: route is the path after the API prefix split on
\* slashes, data the request body, new_id the id make_file returns
api_upload(db, dk, session, route, data, pending, new_id) ==
    IF data.kind = "none"
    THEN DiskOutcome("upload", db, dk, response_invalid_data("No data provided!"),
                     FALSE, FALSE, FALSE, "none")
    ELSE IF session = NoSession
    THEN DiskOutcome("upload", db, dk, response_invalid_data("You need to login."),
                     FALSE, FALSE, FALSE, "none")
    ELSE IF Len(route) < 2
    THEN DiskOutcome("upload", db, dk, response_invalid_data("Invalid Data."),
                     FALSE, FALSE, FALSE, "none")
    ELSE LET parent_dir == IF Len(route) = 2 THEN RootFolder ELSE route[2]
             file_name == IF Len(route) = 2 THEN route[2] ELSE route[3]
             made == file_db_make_file(db, new_id, session, parent_dir, file_name)
             done == [FreshResponse EXCEPT
                         !.reply = [key |-> "file_id", value |-> {new_id}]]
         IN  IF ~file_db_name_check(db, session, parent_dir, file_name)
             THEN DiskOutcome("upload", db, dk,
                     response_invalid_data("A file with this name already exists!"),
                     FALSE, FALSE, FALSE, "none")
             ELSE IF data.kind = "receiver"
             THEN LET got == receive_into(data, pending)
                  IN  IF got.err # "none"
                      THEN \* the row is in the database, the file is cut short
                           DiskOutcome("upload", made,
                              disk_write(dk, new_id, got.data), FreshResponse,
                              FALSE, FALSE, TRUE, got.err)
                      ELSE DiskOutcome("upload", made,
                              disk_write(dk, new_id, got.data), done,
                              FALSE, FALSE, TRUE, "none")
             ELSE DiskOutcome("upload", made, disk_write(dk, new_id, data.data),
                     done, FALSE, FALSE, TRUE, "none")

\* what a handler did, for one that has no access check of the kind
\* rename, move and delete have
Call(op, allowed, mutated, raised) ==
    [op |-> op, checked |-> FALSE, allowed |-> allowed, mutated |-> mutated,
     raised |-> raised]

\* response.json_body({key: value})
json_body(resp, key, value) ==
    [resp EXCEPT !.reply = [key |-> key, value |-> value]]

\* APIHandler._user
api_user(session) ==
    IF session = NoSession
    THEN [resp |-> response_invalid_data("You need to login."),
          call |-> Call("user", FALSE, FALSE, "none")]
    ELSE [resp |-> json_body(FreshResponse, "user_name", {session}),
          call |-> Call("user", TRUE, FALSE, "none")]

\* APIHandler._update: route[1] is the id of the file to overwrite
api_update(db, dk, session, route, data, pending) ==
    IF data.kind = "none"
    THEN [disk |-> dk, resp |-> response_invalid_data("No data provided!"),
          call |-> Call("update", FALSE, FALSE, "none")]
    ELSE IF session = NoSession
    THEN [disk |-> dk, resp |-> response_invalid_data("You need to login."),
          call |-> Call("update", FALSE, FALSE, "none")]
    ELSE IF Len(route) < 1
    THEN [disk |-> dk, resp |-> response_invalid_data("No file selected!"),
          call |-> Call("update", FALSE, FALSE, "none")]
    ELSE LET file_id == route[1]
         IN  IF \/ ~file_db_check_file_id(db, file_id)
                \/ ~file_db_can_download(db, session, file_id)
             THEN [disk |-> dk,
                   resp |-> response_invalid_data(
                     "The file does not exist or you do not have permissions for it."),
                   call |-> Call("update", FALSE, FALSE, "none")]
             ELSE IF data.kind = "receiver"
             THEN LET got == receive_into(data, pending)
                  IN  [disk |-> disk_write(dk, file_id, got.data),
                       resp |-> FreshResponse,
                       call |-> Call("update", TRUE, TRUE, got.err)]
             ELSE [disk |-> disk_write(dk, file_id, data.data),
                   resp |-> FreshResponse,
                   call |-> Call("update", TRUE, TRUE, "none")]

\* mimetypes.guess_type(name)[0], its major type: a name without a known
\* extension has none
guess_type(name) ==
    IF name = "t.txt" THEN "text" ELSE Missing

\* file_db.get_name
file_db_get_name(db, file_id) ==
    (CHOOSE f \in db : f.id = file_id).name

\* APIHandler._download: route[1] is the file id, route[2] may ask for
\* an attachment
api_download(db, session, route) ==
    IF session = NoSession
    THEN [resp |-> response_invalid_data("You need to login."),
          call |-> Call("download", FALSE, FALSE, "none")]
    ELSE LET file_id == route[1]
             do_download == IF Len(route) > 1 THEN route[2] = "download" ELSE FALSE
         IN  IF ~file_db_can_download(db, session, file_id)
             THEN [resp |-> response_invalid_data("You cannot download this file!"),
                   call |-> Call("download", FALSE, FALSE, "none")]
             ELSE IF file_db_check_folder_id(file_id)
             THEN [resp |-> response_invalid_data("You cannot download a folder!"),
                   call |-> Call("download", FALSE, FALSE, "none")]
             ELSE [resp |-> [FreshResponse EXCEPT
                       !.sender = file_id,
                       !.headers = @ \cup {"Content-Type"} \cup
                           (IF do_download THEN {"Content-Disposition"} ELSE {})],
                   call |-> Call("download", TRUE, FALSE, "none")]

\* file_db.make_folder: a new folder under the id the database chose
file_db_make_folder(fs, new_id) == fs \cup {new_id}

\* APIHandler._folder
api_folder(fs, session, parent_id, folder_name, new_id) ==
    IF session = NoSession
    THEN [folders |-> fs, resp |-> response_invalid_data("You need to login."),
          call |-> Call("folder", FALSE, FALSE, "none")]
    ELSE IF parent_id = Missing \/ folder_name = Missing
    THEN [folders |-> fs, resp |-> response_invalid_data("No data sent!"),
          call |-> Call("folder", FALSE, FALSE, "none")]
    ELSE IF parent_id # RootFolder /\ ~file_db_check_folder_id(parent_id)
    THEN [folders |-> fs,
          resp |-> response_invalid_data("The parent folder does not exist!"),
          call |-> Call("folder", FALSE, FALSE, "none")]
    ELSE [folders |-> file_db_make_folder(fs, new_id),
          resp |-> json_body(FreshResponse, "folder_id", {new_id}),
          call |-> Call("folder", TRUE, TRUE, "none")]

\* file_db.list_all: the files of the user
file_db_list_all(db, session) == {f.id : f \in {g \in db : g.owner = session}}

\* APIHandler._list_all
api_list_all(db, session) ==
    IF session = NoSession
    THEN [resp |-> response_invalid_data("You need to login."),
          call |-> Call("listall", FALSE, FALSE, "none")]
    ELSE [resp |-> json_body(FreshResponse, "files", file_db_list_all(db, session)),
          call |-> Call("listall", TRUE, FALSE, "none")]

\* APIHandler._send_file: a page of the web directory becomes the body
send_file(resp, web_file) ==
    [resp EXCEPT !.sender = web_file, !.headers = @ \cup {"Content-Type"}]

\* APIHandler._preview: route[2] is the file id
api_preview(db, session, route) ==
    IF session = NoSession
    THEN [resp |-> response_invalid_data("You need to login."),
          call |-> Call("preview", FALSE, FALSE, "none")]
    ELSE LET file_id == IF Len(route) > 1 THEN route[2] ELSE Missing
         IN  IF file_id = Missing
             THEN [resp |-> response_invalid_data("No file ID specified!"),
                   call |-> Call("preview", FALSE, FALSE, "none")]
             ELSE IF ~file_db_can_download(db, session, file_id)
             THEN [resp |-> response_invalid_data("You can't do that"),
                   call |-> Call("preview", FALSE, FALSE, "none")]
             ELSE LET mime == guess_type(file_db_get_name(db, file_id))
                      page == CASE mime = Missing -> "no_preview.html"
                                [] mime = "text" -> "text_preview.html"
                                [] mime = "image" -> "img_preview.html"
                                [] mime = "video" -> "vid_preview.html"
                                [] OTHER -> "no_preview.html"
                  IN  [resp |-> send_file(FreshResponse, page),
                       call |-> Call("preview", TRUE, FALSE, "none")]

\* hashlib.sha512(password.encode()).hexdigest()
sha512(password) == <<"sha512", password>>

\* share_db.create_share: a new row under the id the database chose
share_db_create_share(sh, new_id, session, file_id, password) ==
    sh \cup {[id |-> new_id, owner |-> session, file |-> file_id,
              password |-> password]}

\* APIHandler._share
api_share(db, sh, session, file_id, password, new_id) ==
    IF session = NoSession
    THEN [shares |-> sh, resp |-> response_invalid_data("You need to login."),
          call |-> Call("share", FALSE, FALSE, "none")]
    ELSE IF file_id = Missing
    THEN [shares |-> sh,
          resp |-> response_invalid_data("You didn't provide a file id."),
          call |-> Call("share", FALSE, FALSE, "none")]
    ELSE IF ~file_db_can_download(db, session, file_id)
    THEN [shares |-> sh, resp |-> response_invalid_data("You cannot do that!"),
          call |-> Call("share", FALSE, FALSE, "none")]
    ELSE [shares |-> share_db_create_share(sh, new_id, session, file_id,
                        IF password # Missing THEN sha512(password) ELSE Missing),
          resp |-> json_body(FreshResponse, "share_id", {new_id}),
          call |-> Call("share", TRUE, TRUE, "none")]

\* what an API request may carry
Users == {"u1", "u2"}
Sessions == Users \cup {NoSession}
RequestFileIds == {"f1", "f9", Missing}
RequestNames == {"n2", "", Missing}
RequestFolders == {RootFolder, "d1", "d9", Missing}

\* the file database before the requests: a file of u1, private or shared
\* with u2, and a file of u2
StoredFiles ==
    {{FileRow("f1", "u1", "n1", RootFolder, readers),
      FileRow("f2", "u2", "n1", "d1", {})} : readers \in {{}, {"u2"}}}

\* the content of the stored files on disk before the requests
StoredDisk == {[id |-> "f1", data |-> <<"o","l","d">>],
               [id |-> "f2", data |-> <<"o","l","d">>]}

\* one request to /rename
rename ==
    /\ \E session \in Sessions, file_id \in RequestFileIds,
          new_name \in RequestNames :
          LET r == api_rename(files, session, file_id, new_name)
          IN  /\ files' = r.files
              /\ aresp' = r.resp
              /\ acall' = r.call
              /\ asession' = session
    /\ UNCHANGED storeVars
    /\ UNCHANGED userVars
    /\ UNCHANGED reqVars
    /\ UNCHANGED respVars

\* one request to /move
move ==
    /\ \E session \in Sessions, file_id \in RequestFileIds,
          new_path \in RequestFolders :
          LET r == api_move(files, session, file_id, new_path)
          IN  /\ files' = r.files
              /\ aresp' = r.resp
              /\ acall' = r.call
              /\ asession' = session
    /\ UNCHANGED storeVars
    /\ UNCHANGED userVars
    /\ UNCHANGED reqVars
    /\ UNCHANGED respVars

\* one request to /delete
delete ==
    /\ \E session \in Sessions, file_id \in RequestFileIds :
          LET r == api_delete(files, session, file_id)
          IN  /\ files' = r.files
              /\ aresp' = r.resp
              /\ acall' = r.call
              /\ asession' = session
    /\ UNCHANGED storeVars
    /\ UNCHANGED userVars
    /\ UNCHANGED reqVars
    /\ UNCHANGED respVars

\* the bodies of an upload: none, in memory, or streamed with the bytes
\* that arrive before the peer closes; the routes; the ids make_file and
\* the other databases hand out
SentBytes == <<"a","b","c","d","e">>
UploadBodies ==
    {[data |-> NoBody, pending |-> <<>>],
     [data |-> Bytes(SubSeq(SentBytes, 1, 3)), pending |-> <<>>],
     [data |-> DataReceiver(Len(SentBytes)), pending |-> SentBytes],
     [data |-> DataReceiver(Len(SentBytes)), pending |-> SubSeq(SentBytes, 1, 3)]}
UploadRoutes == {<<"upload">>, <<"upload", "t.txt">>, <<"upload", "d1", "n1">>}
NewFileIds == {"f3"}
UsedIds == {f.id : f \in files} \cup folders \cup {sh.id : sh \in shares}

\* one request to /upload
upload ==
    /\ \E session \in Sessions, route \in UploadRoutes, b \in UploadBodies,
          new_id \in NewFileIds \ UsedIds :
          LET r == api_upload(files, disk, session, route, b.data, b.pending, new_id)
          IN  /\ files' = r.files
              /\ disk' = r.disk
              /\ aresp' = r.resp
              /\ acall' = r.call
              /\ asession' = session
    /\ UNCHANGED <<folders, shares>>
    /\ UNCHANGED userVars
    /\ UNCHANGED reqVars
    /\ UNCHANGED respVars

\* one request to /user
user ==
    /\ \E session \in Sessions :
          LET r == api_user(session)
          IN  /\ aresp' = r.resp
              /\ acall' = r.call
              /\ asession' = session
    /\ UNCHANGED files
    /\ UNCHANGED storeVars
    /\ UNCHANGED userVars
    /\ UNCHANGED reqVars
    /\ UNCHANGED respVars

\* the bodies of an update
UpdateBodies ==
    {[data |-> NoBody, pending |-> <<>>],
     [data |-> Bytes(SubSeq(SentBytes, 1, 3)), pending |-> <<>>],
     [data |-> DataReceiver(Len(SentBytes)), pending |-> SubSeq(SentBytes, 1, 3)]}

\* one POST to /<file_id>: handle() enters _update for the id of a file
update ==
    /\ \E session \in Sessions, file_id \in {"f1"}, b \in UpdateBodies :
          /\ file_db_check_file_id(files, file_id)
          /\ LET r == api_update(files, disk, session, <<file_id>>, b.data,
                                 b.pending)
             IN  /\ disk' = r.disk
                 /\ aresp' = r.resp
                 /\ acall' = r.call
                 /\ asession' = session
    /\ UNCHANGED <<files, folders, shares>>
    /\ UNCHANGED userVars
    /\ UNCHANGED reqVars
    /\ UNCHANGED respVars

\* one GET to /<file_id> or /<file_id>/download: handle() enters
\* _download for the id of a file
download ==
    /\ \E session \in Sessions, file_id \in {"f1", "f3"},
          tail \in {<<>>, <<"download">>} :
          /\ file_db_check_file_id(files, file_id)
          /\ LET r == api_download(files, session, <<file_id>> \o tail)
             IN  /\ aresp' = r.resp
                 /\ acall' = r.call
                 /\ asession' = session
    /\ UNCHANGED files
    /\ UNCHANGED storeVars
    /\ UNCHANGED userVars
    /\ UNCHANGED reqVars
    /\ UNCHANGED respVars

NewFolderIds == {"d2"}

\* one request to /folder
folder ==
    /\ \E session \in Sessions, parent_id \in RequestFolders,
          folder_name \in {"n4", Missing}, new_id \in NewFolderIds \ UsedIds :
          LET r == api_folder(folders, session, parent_id, folder_name, new_id)
          IN  /\ folders' = r.folders
              /\ aresp' = r.resp
              /\ acall' = r.call
              /\ asession' = session
    /\ UNCHANGED <<files, shares, disk>>
    /\ UNCHANGED userVars
    /\ UNCHANGED reqVars
    /\ UNCHANGED respVars

\* one request to /listall
listall ==
    /\ \E session \in Sessions :
          LET r == api_list_all(files, session)
          IN  /\ aresp' = r.resp
              /\ acall' = r.call
              /\ asession' = session
    /\ UNCHANGED files
    /\ UNCHANGED storeVars
    /\ UNCHANGED userVars
    /\ UNCHANGED reqVars
    /\ UNCHANGED respVars

\* one request to /preview or /preview/<file_id>
preview ==
    /\ \E session \in Sessions,
          route \in {<<"preview">>, <<"preview", "f1">>, <<"preview", "f3">>,
                     <<"preview", "f9">>} :
          LET r == api_preview(files, session, route)
          IN  /\ aresp' = r.resp
              /\ acall' = r.call
              /\ asession' = session
    /\ UNCHANGED files
    /\ UNCHANGED storeVars
    /\ UNCHANGED userVars
    /\ UNCHANGED reqVars
    /\ UNCHANGED respVars

NewShareIds == {"s1"}
SharePasswords == {"pw", Missing}

\* one request to /share
share ==
    /\ \E session \in Sessions, file_id \in {"f1", "f9", Missing},
          password \in SharePasswords, new_id \in NewShareIds \ UsedIds :
          LET r == api_share(files, shares, session, file_id, password, new_id)
          IN  /\ shares' = r.shares
              /\ aresp' = r.resp
              /\ acall' = r.call
              /\ asession' = session
    /\ UNCHANGED <<files, folders, disk>>
    /\ UNCHANGED userVars
    /\ UNCHANGED reqVars
    /\ UNCHANGED respVars

(* ------------------------------------------------------------------ *)
(* storage.users_table.UsersTable                                      *)
(* ------------------------------------------------------------------ *)

\* a row of the table users: user_id, email, password
UserRow(userid, email, passwd) ==
    [user_id |-> userid, email |-> email, password |-> passwd]

\* Table.select("*", "user_id = ?", ...) and Table.select("*", "email = ?", ...)
select_user_id(table, userid) == {u \in table : u.user_id = userid}
select_email(table, email) == {u \in table : u.email = email}

id_exists(table, userid) == Cardinality(select_user_id(table, userid)) > 0

email_exists(table, email) == Cardinality(select_email(table, email)) > 0

exists(table, userid, email) == id_exists(table, userid) \/ email_exists(table, email)

\* register inserting as soon as the user id is free
register_id_only(table, userid, email, passwd) ==
    IF id_exists(table, userid) THEN [ret |-> FALSE, table |-> table]
    ELSE [ret |-> TRUE, table |-> table \cup {UserRow(userid, email, passwd)}]

\* UsersTable.register: what it returns and the table it leaves
register(table, userid, email, passwd) ==
    IF exists(table, userid, email) THEN [ret |-> FALSE, table |-> table]
    ELSE [ret |-> TRUE, table |-> table \cup {UserRow(userid, email, passwd)}]

\* the arguments register is called with
UserIds == {"ann", "bob", "cyd"}
Emails == {"a@x.y", "b@x.y", "c@x.y"}
Passwords == {"h1", "h2"}

NoRegister == [userid |-> Missing, email |-> Missing, passwd |-> Missing,
               ret |-> FALSE]

\* one call of register
register_user ==
    /\ \E userid \in UserIds, email \in Emails, passwd \in Passwords :
          LET r == register(users, userid, email, passwd)
          IN  /\ users' = r.table
              /\ ucall' = [userid |-> userid, email |-> email,
                           passwd |-> passwd, ret |-> r.ret]
    /\ UNCHANGED <<files, aresp, asession, acall>>
    /\ UNCHANGED storeVars
    /\ UNCHANGED reqVars
    /\ UNCHANGED respVars

(* ------------------------------------------------------------------ *)
(* The requests a peer may send                                        *)
(* ------------------------------------------------------------------ *)

CRLF == <<"\r", "\n">>

MethodTokens ==
    {<<"G","E","T">>,
     <<"P","O","S","T">>,
     <<"g","e","t">>,
     <<"F","O","O">>}

TargetTokens ==
    {<<"/","a","/","v","1","/","u","s","e","r","?","x","=","1">>,
     <<"/","%","4","1","b">>,
     <<"/","a","%","2","f","b","?","c","?","d">>,
     <<"/","%","z","z","%","4">>,
     <<"/","a","%","3","F","b","?","c">>,
     <<>>}

VersionTokens ==
    {<<"H","T","T","P","/","1",".","1">>,
     <<"h","t","t","p","/","1",".","1">>,
     <<"H","T","T","P","/","1",".","0">>,
     <<"H","T","T","P","/","1",".","1"," ","x">>}

\* three tokens or more, two tokens, one token, and padded lines
StatusLines ==
    {Join(<<m, t, v>>, Space) :
        m \in MethodTokens, t \in TargetTokens, v \in VersionTokens}
    \cup {Join(<<m, t>>, Space) : m \in MethodTokens, t \in TargetTokens}
    \cup MethodTokens
    \cup {Space \o Join(<<mGET, t, HTTP_VERSION>>, Space) \o Space :
            t \in TargetTokens}

GoodStatus == <<"P","O","S","T"," ","/","u","p"," ","H","T","T","P","/","1",".","1">>

\* zero or one line of each kind, in this order
ContentLengthLines ==
    {<<"C","o","n","t","e","n","t","-","L","e","n","g","t","h",":"," ","0">>,
     <<"C","o","n","t","e","n","t","-","L","e","n","g","t","h",":"," ","2">>,
     <<"c","o","n","t","e","n","t","-","l","e","n","g","t","h",":"," ","3">>,
     <<"C","o","n","t","e","n","t","-","L","e","n","g","t","h",":"," ","4">>,
     <<"C","o","n","t","e","n","t","-","L","e","n","g","t","h",":"," ","5">>,
     <<"C","o","n","t","e","n","t","-","L","e","n","g","t","h",":"," ","x">>,
     <<"C","o","n","t","e","n","t","-","L","e","n","g","t","h",":"," ","-","1">>,
     <<"C","o","n","t","e","n","t","-","L","e","n","g","t","h",":","2">>}

SecondContentLengthLines ==
    {<<"C","O","N","T","E","N","T","-","L","E","N","G","T","H",":"," ","2">>,
     <<"c","o","n","t","e","n","t","-","l","e","n","g","t","h">>}

ContentEncodingLines ==
    {<<"C","o","n","t","e","n","t","-","E","n","c","o","d","i","n","g",":"," ","g","z","i","p">>,
     <<"c","o","n","t","e","n","t","-","e","n","c","o","d","i","n","g",":"," ","z","z",","," ","g","z","i","p">>,
     <<"C","o","n","t","e","n","t","-","E","n","c","o","d","i","n","g",":"," ","g","z","i","p",","," ","b","r">>}

AcceptEncodingLines ==
    {<<"A","c","c","e","p","t","-","E","n","c","o","d","i","n","g",":"," ","g","z","i","p",","," ","b","r">>,
     <<"a","c","c","e","p","t","-","e","n","c","o","d","i","n","g",":"," ","z","z">>,
     <<"A","c","c","e","p","t","-","E","n","c","o","d","i","n","g",":"," ","d","e","f","l","a","t","e",","," ","g","z","i","p">>}

Opt(lines) == {<<>>} \cup {<<l>> : l \in lines}

\* every mix of length and encoding lines; the Accept-Encoding line, which
\* only the response reads, comes with or without a short body
HeaderBlocks ==
    {a \o b \o c :
        a \in Opt(ContentLengthLines), b \in Opt(SecondContentLengthLines),
        c \in Opt(ContentEncodingLines)}
    \cup {a \o d :
        a \in Opt({<<"C","o","n","t","e","n","t","-","L","e","n","g","t","h",":"," ","2">>}),
        d \in Opt(AcceptEncodingLines)}

WireBodies ==
    {<<>>,
     <<"a">>,
     <<"Z","a","4">>,
     <<"a","b","c","d","e">>}

RECURSIVE Lines(_)
Lines(ls) == IF ls = <<>> THEN <<>> ELSE ls[1] \o CRLF \o Lines(Tail(ls))

\* a whole request, and requests cut off inside the header section
Wire(st, hs, b) == st \o CRLF \o Lines(hs) \o CRLF \o b

\* a body encoded with gzip and then br, sent with an encoding list that
\* names an unknown codec between the two
MixedEncodingHeaders ==
    <<<<"c","o","n","t","e","n","t","-","l","e","n","g","t","h",":"," ","3">>,
      <<"C","o","n","t","e","n","t","-","E","n","c","o","d","i","n","g",":"," ","b","r",","," ","z","z",","," ","g","z","i","p">>>>
MixedEncodingBody == <<"4","a","Z">>

Requests ==
    {Wire(st, <<>>, <<>>) : st \in StatusLines}
    \cup {Wire(GoodStatus, hs, b) : hs \in HeaderBlocks, b \in WireBodies}
    \cup {Wire(GoodStatus, MixedEncodingHeaders, MixedEncodingBody)}
    \cup {GoodStatus, GoodStatus \o CRLF \o hAcceptEncoding}

Init ==
    /\ wire \in Requests
    /\ pos = 0
    /\ pc = "STATUS"
    /\ err = "none"
    /\ method = None
    /\ path = None
    /\ headers = EmptyDict
    /\ body = NoBody
    /\ spc = "NEW"
    /\ rerr = "none"
    /\ status = [code |-> 200, msg |-> <<"O","K">>]
    /\ rheaders = EmptyDict
    /\ rbody = NoBody
    /\ out = <<>>
    /\ closes = 0
    /\ files = {}
    /\ aresp = FreshResponse
    /\ acall = NoCall
    /\ asession = NoSession
    /\ folders = {}
    /\ shares = {}
    /\ disk = {}
    /\ users = {}
    /\ ucall = NoRegister

Next ==
    \/ read_line_eof
    \/ read_status
    \/ read_headers
    \/ read_body
    \/ handle_request
    \/ send_begin
    \/ send_status
    \/ send_headers
    \/ send_body
    \/ send_close
    \/ send_raises

Spec == Init /\ [][Next]_vars

\* the parser followed by a call of _decompress_body, which handle itself
\* never makes
NextDecode ==
    \/ read_line_eof
    \/ read_status
    \/ read_headers
    \/ read_body
    \/ decompress_request

SpecDecode == Init /\ [][NextDecode]_vars

\* the API handlers on a stored file database, one request after another
InitApi ==
    /\ wire = Wire(GoodStatus, <<>>, <<>>)
    /\ pos = 0
    /\ pc = "STATUS"
    /\ err = "none"
    /\ method = None
    /\ path = None
    /\ headers = EmptyDict
    /\ body = NoBody
    /\ spc = "NEW"
    /\ rerr = "none"
    /\ status = [code |-> 200, msg |-> <<"O","K">>]
    /\ rheaders = EmptyDict
    /\ rbody = NoBody
    /\ out = <<>>
    /\ closes = 0
    /\ files \in StoredFiles
    /\ aresp = FreshResponse
    /\ acall = NoCall
    /\ asession = NoSession
    /\ folders = FolderIds
    /\ shares = {}
    /\ disk = StoredDisk
    /\ users = {}
    /\ ucall = NoRegister

NextApi ==
    \/ rename
    \/ move
    \/ delete
    \/ upload
    \/ user
    \/ update
    \/ download
    \/ folder
    \/ listall
    \/ preview
    \/ share

SpecApi == InitApi /\ [][NextApi]_vars

\* calls of UsersTable.register on a table that starts empty
NextUsers == register_user

SpecUsers == InitApi /\ [][NextUsers]_vars

(* ------------------------------------------------------------------ *)
(* Properties of the request parser                                    *)
(* ------------------------------------------------------------------ *)

\* the status line as _read_line returns it, and its space-separated tokens
StatusLine == read_line(wire, 0)
StatusTokens == SplitAll(StatusLine, Space)

\* _read_status has run
StatusRead == HasLine(wire, 0) /\ pc # "STATUS"

\* the part of a request-target before its first question mark
BeforeQuery(target) ==
    IF \E i \in 1..Len(target) : target[i] = "?"
    THEN SubSeq(target, 1,
            (CHOOSE i \in 1..Len(target) :
                target[i] = "?" /\ \A j \in 1..(i - 1) : target[j] # "?") - 1)
    ELSE target

WellFormedStatus ==
    /\ Len(StatusTokens) = 3
    /\ StatusTokens[1] \in WebMethods
    /\ StatusTokens[3] = HTTP_VERSION

\* C1: a status line of exactly three space-separated tokens with a supported
\* verb and the fixed version is accepted, the method is the first token and
\* the path is the percent-decoded part of the target before its first
\* question mark
C1_WellFormedStatusParsed ==
    (StatusRead /\ WellFormedStatus) =>
        /\ method = StatusTokens[1]
        /\ path = Unquote(BeforeQuery(StatusTokens[2]))

\* C1 witness: GET /a/v1/user?x=1 HTTP/1.1 was parsed
C1_Witness ==
    /\ StatusRead /\ WellFormedStatus
    /\ pc = "HEADERS"
    /\ \E i \in 1..Len(StatusTokens[2]) : StatusTokens[2][i] = "?"
    /\ method = mGET
    /\ path = <<"/","a","/","v","1","/","u","s","e","r">>

\* C2: a status line with fewer or more than three tokens, or with a version
\* that differs from the supported one even ignoring case, ends in a protocol
\* error with neither method nor path assigned
C2_MalformedStatusRejected ==
    (StatusRead /\ (Len(StatusTokens) # 3
                    \/ Lower(StatusTokens[3]) # Lower(HTTP_VERSION))) =>
        /\ pc = "ERROR"
        /\ err = "ProtocolError"
        /\ method = None
        /\ path = None

\* C2 witness: a line of more than three tokens whose first three would be
\* a valid status line was rejected
C2_Witness ==
    /\ StatusRead
    /\ Len(StatusTokens) > 3
    /\ StatusTokens[1] \in WebMethods
    /\ StatusTokens[3] = HTTP_VERSION
    /\ pc = "ERROR"

HasContentLength == DictHas(headers, hContentLength)
ContentLengthText == DictGet(headers, hContentLength)

\* C4: a parsed in-memory body has exactly the declared number of bytes
C4_BodyHasDeclaredLength ==
    (pc = "DONE" /\ body.kind = "bytes") =>
        Len(body.data) = IntValue(ContentLengthText)

\* C5 as claimed: after a successful parse the body is present exactly when
\* a Content-Length header was present with a nonzero value
C5_BodyIffNonzeroLength ==
    pc = "DONE" =>
        (body.kind # "none" <=>
            (HasContentLength /\ IntValue(ContentLengthText) # 0))

\* C5 amended: after a successful parse the body is present exactly when a
\* Content-Length header was present, and a declared length of zero gives an
\* empty in-memory body, not an absent one
C5_BodyIffContentLength ==
    pc = "DONE" =>
        /\ body.kind # "none" <=> HasContentLength
        /\ (HasContentLength /\ IntValue(ContentLengthText) = 0)
              => body = Bytes(<<>>)

\* C5 witness: Content-Length: 0 was parsed
C5_Witness ==
    /\ pc = "DONE"
    /\ HasContentLength
    /\ IntValue(ContentLengthText) = 0
    /\ body.kind = "bytes"

\* C6: after a successful parse with a Content-Length header the body is a
\* streaming receiver of the declared length exactly when that length is at
\* least the threshold, and an in-memory buffer for every smaller length
C6_StreamedIffAtLeastThreshold ==
    (pc = "DONE" /\ HasContentLength) =>
        LET n == IntValue(ContentLengthText)
        IN  /\ body.kind = "receiver" <=> n >= BUFFERED_CHUNK_SIZE
            /\ body.kind = "receiver" => body = DataReceiver(n)
            /\ n < BUFFERED_CHUNK_SIZE => body.kind = "bytes"

\* C6 witness: a declared length equal to the threshold was parsed
C6_Witness ==
    /\ pc = "DONE"
    /\ HasContentLength
    /\ IntValue(ContentLengthText) = BUFFERED_CHUNK_SIZE
    /\ body.kind = "receiver"

\* C7: a Content-Length value that is no integer ends the parse in a
\* protocol error with the body still absent
C7_BadContentLengthRejected ==
    (pc \in {"DONE", "ERROR"} /\ HasContentLength
                              /\ ~IntParses(ContentLengthText)) =>
        /\ pc = "ERROR"
        /\ err = "ProtocolError"
        /\ body = NoBody

\* C7 witness: Content-Length: x was rejected
C7_Witness ==
    /\ pc = "ERROR"
    /\ HasContentLength
    /\ ContentLengthText = <<"x">>
    /\ pos < Len(wire)

\* the header lines _read_headers has consumed, stripped, in order: the
\* lines after the status line up to the read offset
ReadLines == SplitAll(SubSeq(wire, 1, pos), <<"\n">>)
HeaderLinesRead ==
    LET ls == ReadLines
    IN  SelectSeq([i \in 1..(Len(ls) - 1) |-> Strip(ls[i + 1])],
                  LAMBDA l : l # <<>>)

\* the name and the value a header line carries
LineName(l) == IF Find(l, ColonSpace) = 0 THEN l
               ELSE SubSeq(l, 1, Find(l, ColonSpace) - 1)
LineValue(l) == IF Find(l, ColonSpace) = 0 THEN <<>>
                ELSE SubSeq(l, Find(l, ColonSpace) + 2, Len(l))

\* the offset is at the end of a header line or of the empty line
AtHeaderLineEnd ==
    /\ pc \in {"HEADERS", "BODY"}
    /\ pos > 0
    /\ wire[pos] = "\n"

\* C8: the parsed headers hold one entry per case-folded name, the value of
\* a name is that of the last line carrying it in any casing, and a lookup
\* or an existence check finds it under any casing
C8_HeadersCaseInsensitiveLastWins ==
    AtHeaderLineEnd =>
        LET ls == HeaderLinesRead
        IN  /\ \A i, j \in 1..Len(headers) :
                  Lower(headers[i].k) = Lower(headers[j].k) => i = j
            /\ \A i \in 1..Len(headers) :
                  \E n \in 1..Len(ls) : Lower(LineName(ls[n])) = Lower(headers[i].k)
            /\ \A n \in 1..Len(ls) :
                  LET last == CHOOSE m \in n..Len(ls) :
                                /\ Lower(LineName(ls[m])) = Lower(LineName(ls[n]))
                                /\ \A q \in (m + 1)..Len(ls) :
                                      Lower(LineName(ls[q])) # Lower(LineName(ls[n]))
                  IN  \A name \in {LineName(ls[n]), Upper(LineName(ls[n])),
                                   Lower(LineName(ls[n]))} :
                        /\ DictHas(headers, name)
                        /\ DictGet(headers, name) = LineValue(ls[last])

\* C8 witness: two lines spelled Content-Length and CONTENT-LENGTH with
\* different values were read and one entry holds the second value
C8_Witness ==
    /\ pc = "BODY"
    /\ Len(HeaderLinesRead) = 2
    /\ LineName(HeaderLinesRead[1]) = hContentLength
    /\ LineName(HeaderLinesRead[2]) = Upper(hContentLength)
    /\ LineValue(HeaderLinesRead[1]) # LineValue(HeaderLinesRead[2])
    /\ Len(headers) = 1
    /\ DictGet(headers, Lower(hContentLength)) = LineValue(HeaderLinesRead[2])

\* the offset at which the header section of w ends
RECURSIVE SkipHeaders(_, _)
SkipHeaders(w, p) ==
    IF read_line(w, p) = <<>> THEN LineEnd(w, p)
    ELSE SkipHeaders(w, LineEnd(w, p))
HeadEnd == SkipHeaders(wire, LineEnd(wire, 0))

\* the body as it came off the socket
ReceivedBody ==
    IF body.kind = "receiver" THEN DataReceiver(body.length)
    ELSE Bytes(SubSeq(wire, HeadEnd + 1, pos))

\* C9: when handle has returned for a request with a Content-Encoding
\* header and a body, every recognized codec of the header has been applied
\* to the body in listed order (decompressed in memory, or attached to the
\* streaming receiver)
C9_BodyDecodedWhenHandleReturns ==
    (/\ pc = "DONE"
     /\ DictHas(headers, hContentEncoding)
     /\ body.kind # "none"
     /\ decompress_body(headers, ReceivedBody).err = "none") =>
        body = decompress_body(headers, ReceivedBody).body

(* ------------------------------------------------------------------ *)
(* Properties of the response serializer                               *)
(* ------------------------------------------------------------------ *)

\* the place of each kind of socket action in a response
Rank(t) ==
    CASE t = "status" -> 1
      [] t = "header" -> 2
      [] t = "blank" -> 3
      [] t = "body" -> 4
      [] t = "close" -> 5

Count(t) == Cardinality({i \in 1..Len(out) : out[i].t = t})

\* what has been written so far is in order: the status line first and
\* once, header lines, one empty line, then body bytes, the close last
WrittenInOrder ==
    /\ \A i, j \in 1..Len(out) : i < j => Rank(out[i].t) <= Rank(out[j].t)
    /\ out # <<>> =>
          /\ out[1].t = "status"
          /\ out[1].k = HTTP_VERSION \o Space \o IntToStr(status.code)
                            \o Space \o status.msg
    /\ Count("status") <= 1
    /\ Count("blank") <= 1
    /\ Count("close") <= 1
    /\ Count("body") <= 1
    /\ Count("body") + Count("close") > 0 => Count("blank") = 1

\* a finished send wrote the whole response and closed last
SentWhole ==
    spc = "SENT" =>
        /\ Count("status") = 1
        /\ Count("blank") = 1
        /\ Count("header") = Len(DictMerge(default_headers, rheaders))
        /\ \A i \in 1..Len(rheaders) :
              \E j \in 1..Len(out) :
                  out[j] = Event("header", rheaders[i].k, rheaders[i].v)
        /\ rbody.kind = "none" => Count("body") = 0
        /\ rbody.kind = "bytes" =>
              \E j \in 1..Len(out) : out[j] = Event("body", <<>>, rbody.data)
        /\ rbody.kind = "sender" => Count("body") = 1
        /\ out[Len(out)].t = "close"

\* C10: send writes the status line first, then every header line, then one
\* empty line, then the body bytes if any, and closes last; negotiation and
\* the Content-Length assignment are over before the first byte is written
C10_SendOrder ==
    /\ [](WrittenInOrder /\ SentWhole)
    /\ [][out # <<>> => (rheaders' = rheaders /\ rbody' = rbody)]_vars
    /\ [][(out = <<>> /\ out' # <<>>) =>
             (rbody.kind # "none" => DictHas(rheaders, hContentLength))]_vars

\* C10 witness: a response with handler headers and a compressed body was
\* sent whole
C10_Witness ==
    /\ spc = "SENT"
    /\ Count("body") = 1
    /\ Count("header") > 2
    /\ DictHas(rheaders, hContentEncoding)
    /\ DictGet(rheaders, hContentEncoding) # <<>>

\* send has been left: by its last statement, or by the exception of a write
SendLeft == spc \in {"SENT", "RAISED"}

\* C11: the socket is never closed twice, and whenever send has been left,
\* also by a write that raised, the socket has been closed exactly once
C11_ClosedOnEveryExit ==
    /\ closes <= 1
    /\ SendLeft => closes = 1

\* the header lines written so far whose name is name in any letter case
HeaderEvents(name) ==
    {i \in 1..Len(out) : out[i].t = "header" /\ Lower(out[i].k) = Lower(name)}

\* C12: for an in-memory response body, one Content-Length header is
\* written and its value is the number of body bytes written after the
\* headers, which is the length of the body after negotiation
C12_ContentLengthIsBytesWritten ==
    \A j \in 1..Len(out) :
        (out[j].t = "body" /\ rbody.kind = "bytes") =>
            /\ out[j].v = rbody.data
            /\ Cardinality(HeaderEvents(hContentLength)) = 1
            /\ \A i \in HeaderEvents(hContentLength) :
                  /\ i < j
                  /\ out[i].v = IntToStr(Len(out[j].v))

\* C12 witness: a body that negotiation made shorter was sent, by a
\* handler that had set a Content-Length of its own (the entry keeps the
\* place of the handler's header, before Content-Encoding)
C12_Witness ==
    /\ spc = "SENT"
    /\ rbody = Bytes(<<"4","a","Z">>)
    /\ rheaders[1].k = hContentLength
    /\ \E i \in HeaderEvents(hContentLength) : out[i].v = <<"3">>

\* C13: for a streaming response body send sets no Content-Length, so the
\* headers it writes hold a Content-Length only when the handler set one
C13_NoContentLengthWhenStreaming ==
    [][(spc = "READY" /\ rbody.kind = "sender"
            /\ ~DictHas(rheaders, hContentLength)) =>
          ~DictHas(rheaders', hContentLength)]_vars

\* negotiation as the registry is walked from entry i when a codec is
\* taken only if its output is strictly smaller than the body it was given
RECURSIVE StrictlySmallerOnly(_, _, _, _)
StrictlySmallerOnly(i, accept_encoding, data, used) ==
    IF i > Len(SupportedEncodings) THEN [data |-> data, used |-> used]
    ELSE LET encoding == SupportedEncodings[i]
             tested == Compress(encoding, data)
         IN  IF Contains(accept_encoding, encoding) /\ Len(tested) < Len(data)
             THEN StrictlySmallerOnly(i + 1, accept_encoding, tested,
                                      Append(used, encoding))
             ELSE StrictlySmallerOnly(i + 1, accept_encoding, data, used)

\* send negotiates an in-memory body in this step
NegotiatesBytes ==
    /\ spc = "READY"
    /\ rbody.kind = "bytes"
    /\ rbody.data # <<>>
    /\ DictHas(headers, hAcceptEncoding)

\* C14: in the negotiation of an in-memory body the output of a codec
\* replaces the body, and its name is recorded, only if it is strictly
\* smaller than the body; an output of equal or larger size is discarded
C14_ReplacedOnlyIfStrictlySmaller ==
    [][NegotiatesBytes =>
          LET r == StrictlySmallerOnly(1, DictGet(headers, hAcceptEncoding),
                                       rbody.data, <<>>)
          IN  /\ rbody' = Bytes(r.data)
              /\ DictGet(rheaders', hContentEncoding) = Join(r.used, CommaSpace)]_vars

\* C15: negotiation never inflates an in-memory body: whatever the request
\* accepts and whatever the codecs return, the body left by send and the
\* Content-Length it sets, which is the one written, are not larger than
\* the body the handler set
C15_NeverInflates ==
    /\ [][(spc = "READY" /\ rbody.kind = "bytes") =>
             /\ rbody'.kind = "bytes"
             /\ Len(rbody'.data) <= Len(rbody.data)
             /\ IntParses(DictGet(rheaders', hContentLength))
             /\ IntValue(DictGet(rheaders', hContentLength)) <= Len(rbody.data)]_vars
    /\ [](\A i \in HeaderEvents(hContentLength) :
             out[i].v = DictGet(rheaders, hContentLength))

\* C15 witness: the request accepted gzip and br, gzip would have enlarged
\* the body and only br was applied; the response was sent
C15_Witness ==
    /\ spc = "SENT"
    /\ DictHas(headers, hAcceptEncoding)
    /\ Contains(DictGet(headers, hAcceptEncoding), cGzip)
    /\ rbody = Bytes(<<"b","a">>)
    /\ Len(Compress(cGzip, <<"a","b">>)) > 2
    /\ DictGet(rheaders, hContentEncoding) = cBr
    /\ \E i \in HeaderEvents(hContentLength) : out[i].v = <<"2">>

\* the Accept-Encoding value names no codec of the registry
NamesNoCodec(accept_encoding) ==
    \A i \in 1..Len(SupportedEncodings) :
        ~Contains(accept_encoding, SupportedEncodings[i])

\* the step of send that negotiates, when negotiation is to run exactly
\* for the responses that satisfy hasBody and whose request carried
\* Accept-Encoding: it then leaves a Content-Encoding header, empty and
\* with the body untouched if no codec is named; otherwise it adds none
NegotiationStep(hasBody) ==
    spc = "READY" =>
        IF hasBody /\ DictHas(headers, hAcceptEncoding)
        THEN /\ DictHas(rheaders', hContentEncoding)
             /\ NamesNoCodec(DictGet(headers, hAcceptEncoding)) =>
                   /\ DictGet(rheaders', hContentEncoding) = <<>>
                   /\ rbody' = rbody
        ELSE /\ DictHas(rheaders', hContentEncoding)
                   <=> DictHas(rheaders, hContentEncoding)
             /\ rbody' = rbody

\* C16 as stated: negotiation runs whenever the response has a body, an
\* in-memory one of any length, zero included, or a streaming one, and the
\* request carried Accept-Encoding; the response then carries
\* Content-Encoding
C16_ContentEncodingWheneverBody ==
    [][NegotiationStep(rbody.kind # "none")]_vars

\* C16 amended: negotiation runs when the body is not empty (`not
\* self.body` is false) and the request carried Accept-Encoding; the
\* response sent then carries Content-Encoding, with the empty value and
\* the body byte-identical when no known codec is named; with no body, an
\* empty body or no Accept-Encoding send adds no Content-Encoding
C16_ContentEncodingWhenNegotiated ==
    /\ [][NegotiationStep(~BodyFalsy(rbody))]_vars
    /\ [](spc = "SENT" =>
             (DictHas(rheaders, hContentEncoding)
                 <=> HeaderEvents(hContentEncoding) # {}))
    /\ [](\A i \in HeaderEvents(hContentEncoding) :
             out[i].v = DictGet(rheaders, hContentEncoding))

\* C16 witness: a request accepting only an unknown codec was answered
\* with a body that was sent as the handler left it, under an empty
\* Content-Encoding
C16_Witness ==
    /\ spc = "SENT"
    /\ DictHas(headers, hAcceptEncoding)
    /\ NamesNoCodec(DictGet(headers, hAcceptEncoding))
    /\ rbody = Bytes(<<"a","a","a","a">>)
    /\ \E i \in HeaderEvents(hContentEncoding) : out[i].v = <<>>
    /\ \E j \in 1..Len(out) : out[j] = Event("body", <<>>, <<"a","a","a","a">>)

\* the header block has been written
HeadersWritten == Count("blank") = 1

\* one line is written for the header name, with the value of the handler
\* if it set that name in any letter case and the default value otherwise
WrittenOnce(name, default) ==
    /\ Cardinality(HeaderEvents(name)) = 1
    /\ \A i \in HeaderEvents(name) :
          out[i].v = IF DictHas(rheaders, name) THEN DictGet(rheaders, name)
                     ELSE default

\* C17: every response sent holds the Date header and the Server header
\* exactly once each: with the value of the handler when it set a header
\* of that name in any letter case, with the default value otherwise
C17_DateAndServerOnce ==
    HeadersWritten =>
        /\ WrittenOnce(hDate, Now)
        /\ WrittenOnce(hServer, SERVER_NAME)

\* C17 witness: the handler set date in lower case; its value was written,
\* the default Date was not, and Server was written with its default
C17_Witness ==
    /\ spc = "SENT"
    /\ DictHas(rheaders, hDate)
    /\ \E i \in HeaderEvents(hDate) : out[i].v = <<"x">> /\ out[i].k # hDate
    /\ \E i \in HeaderEvents(hServer) : out[i].v = SERVER_NAME

\* parsing ended in a protocol error
ProtocolErrorRaised == pc = "ERROR" /\ err = "ProtocolError"

\* the protocol error was raised for the status line
StatusLineRejected == parse_status(StatusLine).err # "none"

\* C18: when parsing ends in a protocol error the parser has written
\* nothing to the socket and has not closed it, and it has read nothing
\* after the offending line: after a status line error no header line and
\* no body byte, after a Content-Length error no body byte
C18_NothingTouchedAfterProtocolError ==
    ProtocolErrorRaised =>
        /\ out = <<>>
        /\ closes = 0
        /\ body = NoBody
        /\ IF StatusLineRejected
           THEN /\ pos = LineEnd(wire, 0)
                /\ headers = EmptyDict
           ELSE /\ HasContentLength
                /\ pos = HeadEnd

\* C18 witness: a Content-Length that is no integer was rejected with the
\* body bytes of the request still unread
C18_Witness ==
    /\ ProtocolErrorRaised
    /\ ~StatusLineRejected
    /\ pos = HeadEnd
    /\ Len(wire) - pos >= 3
    /\ closes = 0

\* the names listed in the Content-Encoding header of the request, and
\* those of them the registry knows
ListedEncodings == SplitAll(DictGet(headers, hContentEncoding), CommaSpace)
KnownEncodings == SelectSeq(ListedEncodings, IsEncoding)

\* _decompress_body has run on a request with a Content-Encoding header
\* and a body
DecompressRan ==
    /\ pc = "DECODED" \/ (pc = "ERROR" /\ err = "CodecError")
    /\ DictHas(headers, hContentEncoding)
    /\ body.kind # "none"

\* C19: an unknown name in Content-Encoding is skipped without error:
\* _decompress_body ends as it would with only the recognized names
\* listed, in the same order, so it raises nothing for the unknown name,
\* leaves the body alone at that step and applies the names before and
\* after it
C19_UnknownEncodingSkipped ==
    DecompressRan =>
        [err |-> err, body |-> body] =
            decompress_each(KnownEncodings, ReceivedBody)

\* C19 witness: a body listed as br, zz, gzip was decoded through br and
\* gzip
C19_Witness ==
    /\ pc = "DECODED"
    /\ DictHas(headers, hContentEncoding)
    /\ ListedEncodings = <<cBr, <<"z","z">>, cGzip>>
    /\ KnownEncodings = <<cBr, cGzip>>
    /\ ReceivedBody = Bytes(MixedEncodingBody)
    /\ body = Bytes(<<"a","a","a","a">>)

(* ------------------------------------------------------------------ *)
(* Properties of the API handlers                                      *)
(* ------------------------------------------------------------------ *)

\* C20: _rename, _move and _delete call the mutating method of the file
\* database only in a request whose access check can_download returned
\* true; a request whose check fails leaves the file database unchanged
C20_MutationOnlyWhenAllowed ==
    [][(acall'.checked /\ ~acall'.allowed) =>
          (files' = files /\ ~acall'.mutated)]_vars

\* HttpRequest.handle has returned or raised
HandleEnded == pc \in {"DONE", "ERROR"}

\* the loop of _read_line has taken every byte the peer sent before it
\* closed and found no line feed: each further recv(1) returns no byte,
\* which is not a line feed either, and the loop goes round again
LineReadAtEndOfInput == pc \in {"STATUS", "HEADERS"} /\ pos = Len(wire)

\* C22: line reading terminates: when the peer closes before a line feed
\* has arrived _read_line returns or raises, so handle is never left
\* inside a line read at the end of the input
C22_LineReadingTerminates == ~LineReadAtEndOfInput

\* the request declares a negative Content-Length and _read_body has run
NegativeLengthRead ==
    /\ HandleEnded
    /\ HasContentLength
    /\ IntParses(ContentLengthText)
    /\ IntValue(ContentLengthText) < 0

\* C23: a request whose Content-Length is a negative integer is rejected
\* with a protocol error and gets no body
C23_NegativeLengthRejected ==
    NegativeLengthRead =>
        /\ pc = "ERROR"
        /\ err = "ProtocolError"
        /\ body = NoBody

\* C24: when the body is streamed, parsing takes no body byte from the
\* socket: once handle has returned, what was read is the status line, the
\* header lines and the empty line, and the receiver still has its whole
\* declared length to pull
C24_StreamedBodyUnread ==
    (pc = "DONE" /\ body.kind = "receiver") =>
        /\ pos = HeadEnd
        /\ body.data = <<>>
        /\ body.length = IntValue(ContentLengthText)
        /\ body.length >= BUFFERED_CHUNK_SIZE

\* C24 witness: a request declaring five body bytes was parsed with all
\* five still unread on the connection
C24_Witness ==
    /\ pc = "DONE"
    /\ body.kind = "receiver"
    /\ body.length = 5
    /\ Len(wire) - pos = 5

\* a codec of the registry that has a streaming variant and whose name is
\* a substring of the Accept-Encoding value of the request
StreamingNamed(encoding) ==
    /\ HasChunked(encoding)
    /\ Contains(DictGet(headers, hAcceptEncoding), encoding)

\* send negotiates a streaming body in this step
NegotiatesSender ==
    /\ spc = "READY"
    /\ rbody.kind = "sender"
    /\ ~BodyFalsy(rbody)
    /\ DictHas(headers, hAcceptEncoding)

\* C25: for a streaming body negotiation attaches the streaming compressor
\* of every registry codec that is named in Accept-Encoding and has a
\* streaming variant, in registry order, and Content-Encoding lists those
\* names in that order; a named codec without a streaming variant is
\* neither attached nor listed, and the order inside Accept-Encoding does
\* not matter
C25_StreamingNegotiation ==
    [][NegotiatesSender =>
          LET expected == SelectSeq(SupportedEncodings, StreamingNamed)
          IN  /\ rbody' = [rbody EXCEPT !.chain = expected]
              /\ DictGet(rheaders', hContentEncoding) = Join(expected, CommaSpace)]_vars

\* C25 witness: a request accepting deflate, gzip in that order got a
\* streamed body through gzip and then deflate, the registry order
C25_Witness ==
    /\ spc = "SENT"
    /\ rbody.kind = "sender"
    /\ DictHas(headers, hAcceptEncoding)
    /\ Find(DictGet(headers, hAcceptEncoding), cDeflate)
          < Find(DictGet(headers, hAcceptEncoding), cGzip)
    /\ rbody.chain = <<cGzip, cDeflate>>
    /\ \E i \in HeaderEvents(hContentEncoding) :
          out[i].v = Join(<<cGzip, cDeflate>>, CommaSpace)

\* C27: encoding and decoding agree on the codec order: the body that
\* negotiation leaves, decoded by _decompress_body under the
\* Content-Encoding value that negotiation wrote, is the body of the handler
C27_DecodeInvertsEncode ==
    [][NegotiatesBytes =>
          LET listed == SplitAll(DictGet(rheaders', hContentEncoding), CommaSpace)
              r == decompress_each(listed, rbody')
          IN  /\ r.err = "none"
              /\ r.body = rbody]_vars

(* ------------------------------------------------------------------ *)
(* Properties of the users table                                       *)
(* ------------------------------------------------------------------ *)

\* no two rows share a user id, no two share an email
UsersUnique ==
    \A u, v \in users :
        (u.user_id = v.user_id \/ u.email = v.email) => u = v

\* the user id or the email of the call was in the table before it
TakenBefore(c) ==
    \E u \in users : u.user_id = c.userid \/ u.email = c.email

\* C26: after any sequence of register calls no two users share a user id
\* or an email: a call inserts its row and returns True exactly when
\* neither its user id nor its email was in the table before, and otherwise
\* returns False and leaves the table as it was
C26_RegisterKeepsUsersUnique ==
    /\ [](UsersUnique)
    /\ [][(ucall' # ucall \/ users' # users) =>
             IF TakenBefore(ucall')
             THEN ucall'.ret = FALSE /\ users' = users
             ELSE /\ ucall'.ret = TRUE
                  /\ users' = users \cup
                        {UserRow(ucall'.userid, ucall'.email, ucall'.passwd)}]_vars

\* C26 witness: with two users stored, a call with a fresh user id and the
\* email of one of them was turned down
C26_Witness ==
    /\ Cardinality(users) = 2
    /\ ucall.ret = FALSE
    /\ ~\E u \in users : u.user_id = ucall.userid
    /\ \E u \in users : u.email = ucall.email

\* C28: an upload is all or nothing for the file database: when pulling
\* the streamed body into the file fails, no row made by that request is
\* left in the file database and the response reports no file id
C28_UploadAllOrNothing ==
    [][(acall'.op = "upload" /\ acall'.raised # "none") =>
          /\ files' = files
          /\ aresp'.reply.key # "file_id"]_vars

\* the routes of the API that ask for a session
SessionGuardedRoutes ==
    {"user", "upload", "update", "download", "rename", "move", "delete",
     "folder", "listall", "preview", "share"}

\* C21: a request without a valid session to a session-guarded route
\* changes neither the file database nor the share database, writes no
\* file to disk, attaches no file as the response body, and leaves the
\* response with code 500 and message Invalid Form Data
C21_NoSessionNoEffect ==
    [][(asession' = NoSession /\ acall'.op \in SessionGuardedRoutes) =>
          /\ files' = files
          /\ folders' = folders
          /\ shares' = shares
          /\ disk' = disk
          /\ aresp'.sender = Missing
          /\ aresp'.code = 500
          /\ aresp'.msg = "Invalid Form Data"]_vars
C21_Witness ==
    /\ asession = NoSession
    /\ acall.op = "download"
    /\ aresp.code = 500
    /\ aresp.message = "You need to login."
    /\ aresp.sender = Missing
    /\ \E f \in files : f.id = "f3"
    /\ shares # {}

====
